---- MODULE Spec2Model ----
(***************************************************************************)
(* A model of ChemSimGUI's solubility inference engine:                    *)
(*   src/src/model/thermo_solubility.py   (ThermoMath)                     *)
(*   src/src/model/thermo_optimizer.py    (ThermoOptimizer)                *)
(*   src/src/controller/solubility_manager.py (SolubilityManager)          *)
(* and of the worker thread and the project store around it:               *)
(*   src/src/controller/workers.py        (CommandWorker)                  *)
(*   src/src/model/project_manager.py     (ProjectManager)                 *)
(*                                                                         *)
(* Floating point numbers are modelled as exact rationals n/d together     *)
(* with the IEEE specials NaN and +-Inf.  The transcendental functions     *)
(* (np.exp, np.log) are exact where their value is rational (exp(0) = 1,   *)
(* log(1) = 0) and otherwise yield a value drawn from an input oracle.     *)
(* Each pure function has a specification of its own whose Init draws the  *)
(* arguments of one call and whose action applies the function.            *)
(***************************************************************************)
EXTENDS Integers, Sequences, FiniteSets, TLC

VARIABLES
    sle,    \* a call of ThermoMath.solve_sle_solubility, or activity_wilson
    om,     \* a call of ThermoMath.calculate_local_composition_ratio
    cn,     \* a call of ThermoMath.calculate_coordination_number
    stab,   \* a call of ThermoOptimizer.analyze_stability_region
    fit,    \* a call of ThermoOptimizer.fit_interaction_energies
    prof,   \* SolubilityManager: the storage, the systems, calculated_data;
            \* or one simulation of the storage
    pred,   \* a call of SolubilityManager.predict_with_global_optimization
    worker, \* a CommandWorker: its thread, its child process, the GUI thread
    project \* a ProjectManager: the project's systems, the recent projects

vars == <<sle, om, cn, stab, fit, prof, pred, worker, project>>

Idle == [pc |-> "idle"]

(***************************************************************************)
(* Floats                                                                  *)
(***************************************************************************)
Abs(n) == IF n < 0 THEN -n ELSE n

Sgn(n) == IF n > 0 THEN 1 ELSE IF n < 0 THEN -1 ELSE 0

RECURSIVE GCD(_, _)
GCD(a, b) == IF b = 0 THEN a ELSE GCD(b, a % b)

\* n/d divided through by g, a common divisor of n and d
Lowest(n, d, g) == [k |-> "fin", n |-> n \div g, d |-> d \div g]

\* n/d in lowest terms, for d > 0
Norm(n, d) == Lowest(n, d, GCD(Abs(n), d))

\* the finite float n/d, in lowest terms with a positive denominator
Q(n, d) == IF d < 0 THEN Norm(-n, -d) ELSE Norm(n, d)

NaN == [k |-> "nan", n |-> 0, d |-> 1]

Inf(s) == [k |-> "inf", n |-> s, d |-> 1]

\* a finite value that is not known exactly (the result of exp or log)
Unk == [k |-> "unk", n |-> 0, d |-> 1]

Zero == [k |-> "fin", n |-> 0, d |-> 1]

One == [k |-> "fin", n |-> 1, d |-> 1]

IsNaN(a) == a.k = "nan"

IsInf(a) == a.k = "inf"

IsFin(a) == a.k = "fin"

IsUnk(a) == a.k = "unk"

FSign(a) == IF IsFin(a) THEN Sgn(a.n) ELSE IF IsInf(a) THEN a.n ELSE 0

FNeg(a) == [a EXCEPT !.n = -a.n]

\* the sum of two finite floats; g is the GCD of their denominators
AddFin(a, b, g) ==
    Norm(a.n * (b.d \div g) + b.n * (a.d \div g), (a.d \div g) * b.d)

FAdd(a, b) ==
    IF IsNaN(a) \/ IsNaN(b) THEN NaN
    ELSE IF IsInf(a) THEN (IF IsInf(b) /\ b.n # a.n THEN NaN ELSE a)
    ELSE IF IsInf(b) THEN b
    ELSE IF IsUnk(a) \/ IsUnk(b) THEN Unk
    ELSE AddFin(a, b, GCD(a.d, b.d))

FSub(a, b) == FAdd(a, FNeg(b))

\* the product of two finite floats; g1 and g2 are the GCDs of a numerator
\* and the other factor's denominator
MulFin(a, b, g1, g2) ==
    Norm((a.n \div g1) * (b.n \div g2), (a.d \div g2) * (b.d \div g1))

\* the product of two finite floats
MulFins(a, b) == MulFin(a, b, GCD(Abs(a.n), b.d), GCD(Abs(b.n), a.d))

\* 1/b for a finite b other than 0
Recip(b) ==
    IF b.n < 0 THEN [k |-> "fin", n |-> -b.d, d |-> -b.n]
    ELSE [k |-> "fin", n |-> b.d, d |-> b.n]

FMul(a, b) ==
    IF IsNaN(a) \/ IsNaN(b) THEN NaN
    ELSE IF (IsFin(a) /\ a.n = 0) \/ (IsFin(b) /\ b.n = 0)
         THEN (IF IsInf(a) \/ IsInf(b) THEN NaN ELSE Zero)
    ELSE IF IsInf(a) \/ IsInf(b)
         THEN (IF IsUnk(a) \/ IsUnk(b) THEN Unk ELSE Inf(FSign(a) * FSign(b)))
    ELSE IF IsUnk(a) \/ IsUnk(b) THEN Unk
    ELSE MulFins(a, b)

\* numpy's float division: x/0 is +-inf, 0/0 is nan, nothing is raised
FDiv(a, b) ==
    IF IsNaN(a) \/ IsNaN(b) THEN NaN
    ELSE IF IsUnk(a) \/ IsUnk(b) THEN Unk
    ELSE IF IsInf(a) THEN (IF IsInf(b) THEN NaN
                           ELSE Inf(a.n * (IF FSign(b) < 0 THEN -1 ELSE 1)))
    ELSE IF IsInf(b) THEN Zero
    ELSE IF b.n = 0 THEN (IF a.n = 0 THEN NaN ELSE Inf(Sgn(a.n)))
    ELSE MulFins(a, Recip(b))

\* a < b for two finite floats; g is the GCD of their denominators
BelowFin(a, b, g) == a.n * (b.d \div g) < b.n * (a.d \div g)

\* a < b for two different floats, neither of them NaN; a value not known
\* exactly is below nothing and above nothing
Below(a, b) ==
    IF IsFin(a) /\ IsFin(b) THEN BelowFin(a, b, GCD(a.d, b.d))
    ELSE IF IsInf(a) THEN a.n < 0
    ELSE IsInf(b) /\ b.n > 0

\* comparisons: every comparison with NaN is false
FLt(a, b) == ~IsNaN(a) /\ ~IsNaN(b) /\ a # b /\ Below(a, b)

FEq(a, b) == ~IsNaN(a) /\ ~IsNaN(b) /\ a = b

FLe(a, b) == ~IsNaN(a) /\ ~IsNaN(b) /\ (a = b \/ Below(a, b))

FGt(a, b) == FLt(b, a)

FGe(a, b) == FLe(b, a)

\* a * a
Square(a) == FMul(a, a)

(***************************************************************************)
(* ThermoMath: the activity models                                         *)
(***************************************************************************)
\* np.log: exact at 1; of a non-positive or NaN argument it is NaN or -inf
Log(t) ==
    IF IsNaN(t) \/ FSign(t) < 0 THEN NaN
    ELSE IF IsUnk(t) THEN Unk
    ELSE IF IsInf(t) THEN Inf(1)
    ELSE IF t.n = 0 THEN Inf(-1)
    ELSE IF t = One THEN Zero
    ELSE Unk

\* np.exp: exact at 0; hi and lo are the oracle's values for a positive and
\* for a negative argument, unk its value for an argument not known exactly
Exp(v, lo, hi, unk) ==
    IF IsNaN(v) THEN NaN
    ELSE IF IsUnk(v) THEN unk
    ELSE IF IsInf(v) THEN (IF v.n > 0 THEN Inf(1) ELSE Zero)
    ELSE IF v.n = 0 THEN One
    ELSE IF v.n > 0 THEN hi
    ELSE lo

\* the sentinel of activity_wilson and of error_func
Sentinel == Q(1000000, 1)

\* an evaluation either yields a float or raises
Val(v) == [raised |-> FALSE, v |-> v]

Raised == [raised |-> TRUE, v |-> NaN]

\* (mutant) activity_wilson without the guard of term1 and term2
wilson_gamma_unguarded(x2, lambda_12, lambda_21, term1, term2, g) ==
    Exp(FAdd(FNeg(Log(term1)),
             FMul(x2, FSub(FDiv(lambda_12, term1), FDiv(lambda_21, term2)))),
        g, g, g)

\* activity_wilson from term1 and term2 on
wilson_gamma(x2, lambda_12, lambda_21, term1, term2, g) ==
    IF FLe(term1, Zero) \/ FLe(term2, Zero) THEN Sentinel
    ELSE Exp(FAdd(FNeg(Log(term1)),
                  FMul(x2, FSub(FDiv(lambda_12, term1),
                                FDiv(lambda_21, term2)))),
             g, g, g)

\* (mutant) term2 weighs lambda_21 by x2 instead of x1
wilson_terms_x2(x1, x2, lambda_12, lambda_21, g) ==
    wilson_gamma(x2, lambda_12, lambda_21,
                 FAdd(x1, FMul(lambda_12, x2)),
                 FAdd(x2, FMul(lambda_21, x2)), g)

\* activity_wilson from x2 on
wilson_terms(x1, x2, lambda_12, lambda_21, g) ==
    wilson_gamma(x2, lambda_12, lambda_21,
                 FAdd(x1, FMul(lambda_12, x2)),
                 FAdd(x2, FMul(lambda_21, x1)), g)

\* activity_wilson(x1, lambda_12, lambda_21); g is the oracle's exp value
activity_wilson(x1, lambda_12, lambda_21, g) ==
    wilson_terms(x1, FSub(One, x1), lambda_12, lambda_21, g)

\* ln_gamma1 of activity_nrtl, from G12 and G21
nrtl_ln_gamma1(x1, x2, tau_12, tau_21, G12, G21) ==
    FMul(Square(x2),
         FAdd(FMul(tau_21, Square(FDiv(G21, FAdd(x1, FMul(x2, G21))))),
              FDiv(FMul(tau_12, G12), Square(FAdd(x2, FMul(x1, G12))))))

\* activity_nrtl(x1, tau_12, tau_21, alpha)
activity_nrtl(x1, tau_12, tau_21, alpha, g) ==
    Exp(nrtl_ln_gamma1(x1, FSub(One, x1), tau_12, tau_21,
                       Exp(FMul(FNeg(alpha), tau_12), Unk, Unk, Unk),
                       Exp(FMul(FNeg(alpha), tau_21), Unk, Unk, Unk)),
        g, g, g)

\* Python's float division: a zero divisor raises ZeroDivisionError
PyDivRaises(b) == IsFin(b) /\ b.n = 0

\* the margin of activity_uniquac's clamp of x1, and the floor of the
\* arguments of np.log in get_nrtl_params and fit_interaction_energies
\* (1e-10 in the source; the model's smallest float is 1e-9, below every x
\* error_func passes on)
ClampEps == Q(1, 1000000000)

FMax(a, b) == IF FLt(a, b) THEN b ELSE a

FMin(a, b) == IF FLt(b, a) THEN b ELSE a

\* z/2 of activity_uniquac
half_z == Q(5, 1)

\* l1 and l2 of activity_uniquac
uniquac_l(r, q) == FSub(FMul(half_z, FSub(r, q)), FSub(r, One))

\* the combinatorial part of activity_uniquac
uniquac_ln_gamma_C(x1, x2, q1, phi1, theta1, l1, l2) ==
    FSub(FAdd(FAdd(Log(FDiv(phi1, x1)),
                   FMul(FMul(half_z, q1), Log(FDiv(theta1, phi1)))),
              l1),
         FMul(FDiv(phi1, x1), FAdd(FMul(x1, l1), FMul(x2, l2))))

\* the residual part of activity_uniquac
uniquac_ln_gamma_R(q1, tau12, theta1, theta2, val1, val2) ==
    FMul(q1, FSub(FSub(FSub(One, Log(val1)), FDiv(theta1, val1)),
                  FDiv(FMul(theta2, tau12), val2)))

\* activity_uniquac from phi1, theta1 and theta2 on
uniquac_gamma(x1, x2, tau12, tau21, r1, q1, r2, q2, phi1, theta1, theta2, g) ==
    Val(Exp(FAdd(uniquac_ln_gamma_C(x1, x2, q1, phi1, theta1,
                                    uniquac_l(r1, q1), uniquac_l(r2, q2)),
                 uniquac_ln_gamma_R(q1, tau12, theta1, theta2,
                                    FAdd(theta1, FMul(theta2, tau21)),
                                    FAdd(theta2, FMul(theta1, tau12)))),
            g, g, g))

\* activity_uniquac from sum_xr and sum_xq on; the operands of its divisions
\* by sum_xr, sum_xq and phi1 are Python floats
uniquac_fractions(x1, x2, tau12, tau21, r1, q1, r2, q2, sum_xr, sum_xq, g) ==
    IF PyDivRaises(sum_xr) \/ PyDivRaises(sum_xq)
       \/ PyDivRaises(FMul(x1, r1)) THEN Raised
    ELSE uniquac_gamma(x1, x2, tau12, tau21, r1, q1, r2, q2,
                       FDiv(FMul(x1, r1), sum_xr),
                       FDiv(FMul(x1, q1), sum_xq),
                       FDiv(FMul(x2, q2), sum_xq), g)

\* activity_uniquac from the clamped x1 on
uniquac_sums(x1, x2, tau12, tau21, r1, q1, r2, q2, g) ==
    uniquac_fractions(x1, x2, tau12, tau21, r1, q1, r2, q2,
                      FAdd(FMul(x1, r1), FMul(x2, r2)),
                      FAdd(FMul(x1, q1), FMul(x2, q2)), g)

\* activity_uniquac(x1, tau12, tau21, r1, q1, r2, q2, z=10): x2 is taken
\* before x1 is clamped
activity_uniquac(x1, tau12, tau21, r1, q1, r2, q2, g) ==
    uniquac_sums(FMax(ClampEps, FMin(x1, FSub(One, ClampEps))),
                 FSub(One, x1), tau12, tau21, r1, q1, r2, q2, g)

(***************************************************************************)
(* ThermoMath.solve_sle_solubility                                         *)
(***************************************************************************)
\* ThermoMath.R = 8.314462618, to six decimals
RGas == Q(8314463, 1000000)

\* resolution of the grid of mole fractions the solvers evaluate
XDen == 4

Two == [k |-> "fin", n |-> 2, d |-> 1]

\* the bracket of optimize.brentq
BrentLo == Q(1, 1000000000)

BrentHi == Q(9999, 10000)

\* (mutant) bounds that reach beyond the unit interval
FallbackBoundsWide == <<Zero, Two>>

\* the bounds of optimize.minimize_scalar
FallbackBounds == <<Zero, One>>

GridPts == {Q(i, XDen) : i \in 0..(2 * XDen)} \cup {BrentLo, BrentHi}

Between(lo, hi) == {x \in GridPts : FLe(lo, x) /\ FLe(x, hi)}

\* params.get(key, default)
Get(params, key, default) ==
    IF key \in DOMAIN params THEN params[key] ELSE default

\* the activity coefficient error_func computes inside its try block;
\* params[...] of a missing key raises KeyError
Gamma(x, model_type, params, g) ==
    LET has == "p12" \in DOMAIN params /\ "p21" \in DOMAIN params
    IN  IF model_type = "wilson"
        THEN (IF has THEN Val(activity_wilson(x, params["p12"], params["p21"], g))
              ELSE Raised)
        ELSE IF model_type = "nrtl"
        THEN (IF has THEN Val(activity_nrtl(x, params["p12"], params["p21"],
                                            Get(params, "alpha", Q(3, 10)), g))
              ELSE Raised)
        ELSE IF model_type = "uniquac" \/ model_type = "UNIQUAC"
        THEN (IF has THEN activity_uniquac(x, params["p12"], params["p21"],
                                           Get(params, "r1", One), Get(params, "q1", One),
                                           Get(params, "r2", One), Get(params, "q2", One), g)
              ELSE Raised)
        ELSE Val(One)

\* what error_func returns once gamma is computed, or has raised
error_of(x, gamma, target_val) ==
    IF gamma.raised THEN Sentinel
    ELSE FSub(FMul(x, gamma.v), target_val)

\* error_func(x) of solve_sle_solubility
error_func(x, target_val, model_type, params, g) ==
    IF FLe(x, BrentLo) THEN FNeg(target_val)
    ELSE IF FGe(x, One) THEN FSub(One, target_val)
    ELSE error_of(x, Gamma(x, model_type, params, g), target_val)

\* outcomes of a call
Ret(x, path) == [st |-> "ret", x |-> x, path |-> path]

Raise(exc) == [st |-> "raise", x |-> NaN, path |-> exc]

\* p and q are neighbours in the set pts
Adjacent(pts, p, q) ==
    FLt(p, q) /\ ~\E m \in pts : FLt(p, m) /\ FLt(m, q)

\* optimize.brentq(f, a, b) on the grid: the bracket's ends when f is zero
\* there, ValueError when f(a) and f(b) have the same sign, and otherwise a
\* point of the bracket at which f is zero or changes sign.  What it does
\* with a NaN value depends on the scipy release (ValueError, or a point of
\* the bracket).
brentq_on(F, a, b, pts) ==
    IF \E p \in pts : IsNaN(F[p])
    THEN {Raise("ValueError")} \cup {Ret(x, "brentq") : x \in pts}
    ELSE IF FSign(F[a]) = 0 THEN {Ret(a, "brentq")}
    ELSE IF FSign(F[b]) = 0 THEN {Ret(b, "brentq")}
    ELSE IF FSign(F[a]) = FSign(F[b]) THEN {Raise("ValueError")}
    ELSE {Ret(p, "brentq") : p \in
            {p \in pts : \/ FSign(F[p]) = 0
                         \/ \E q \in pts :
                               /\ FSign(F[p]) * FSign(F[q]) < 0
                               /\ Adjacent(pts, p, q) \/ Adjacent(pts, q, p)}}

brentq(F, a, b) == brentq_on(F, a, b, Between(a, b))

\* optimize.minimize_scalar(..., bounds, method='bounded').x: a point within
\* the bounds; the objective error_func(x)**2 never raises
minimize_scalar(bounds) ==
    {Ret(x, "fallback") : x \in Between(bounds[1], bounds[2])}

\* the value of the activity coefficient at x: g.a below g.c, g.b from g.c on
OracleAt(g, x) == IF FLt(x, g.c) THEN g.a ELSE g.b

\* (mutant) the test with > for >=
MeltedStrict(T_op, Tm) == FGt(T_op, Tm)

\* the test "T_op >= Tm" that short-cuts the solver
Melted(T_op, Tm) == FGe(T_op, Tm)

\* solve_sle_solubility(T_op, Tm, Hfus, model_type, params): the set of its
\* outcomes.  py tells whether T_op is a Python float (a zero divisor raises)
\* or a numpy float64 (1.0/0 is inf); Tm and Hfus are Python floats.
\* error_func over the grid, for a target_val
error_table(target_val, model_type, params, g) ==
    [x \in GridPts |->
        error_func(x, target_val, model_type, params, OracleAt(g, x))]

\* the try block around brentq: sol is the set of brentq's outcomes, and
\* an exception of brentq leads to minimize_scalar
brentq_or_fallback(sol) ==
    {o \in sol : o.st = "ret"}
    \cup (IF \E o \in sol : o.st = "raise"
          THEN minimize_scalar(FallbackBounds) ELSE {})

\* RHS = (Hfus / self.R) * ((1.0 / Tm) - (1.0 / T_op))
RHS(T_op, Tm, Hfus) ==
    FMul(FDiv(Hfus, RGas), FSub(FDiv(One, Tm), FDiv(One, T_op)))

solve_sle_solubility(T_op, py, Tm, Hfus, model_type, params, tlo, thi, g) ==
    IF Melted(T_op, Tm) THEN {Ret(One, "melt")}
    ELSE IF PyDivRaises(Tm) \/ (py /\ PyDivRaises(T_op))
         THEN {Raise("ZeroDivisionError")}
    ELSE brentq_or_fallback(
             brentq(error_table(Exp(RHS(T_op, Tm, Hfus), tlo, thi, tlo),
                                model_type, params, g),
                    BrentLo, BrentHi))

\* --- the arguments of a call ---
Temps == {Zero, Q(250, 1), Q(300, 1), Q(350, 1)}

MeltTemps == {Zero, Q(300, 1)}

Enthalpies == {Q(-1, 1), Zero, Q(1, 1)}

ModelTypes == {"wilson", "nrtl", "uniquac", "ideal"}

ParamVals == {<<One, One>>, <<Q(-1, 1), Two>>, <<Zero, Zero>>, <<NaN, One>>}

ParamDicts ==
    {[x \in {} |-> Zero], [alpha |-> Q(3, 10)]}
    \cup {[p12 |-> v[1], p21 |-> v[2], alpha |-> Q(3, 10)] : v \in ParamVals}
    \cup {[p12 |-> One, p21 |-> One, alpha |-> Q(3, 10),
           r1 |-> Zero, q1 |-> One, r2 |-> Zero, q2 |-> One]}

\* the values exp takes where it is not exact: <<of a negative argument
\* (0 on underflow), of a positive argument (inf on overflow)>>
ExpOracles == {<<Zero, Two>>, <<Q(1, 4), Two>>, <<Q(3, 4), Inf(1)>>}

GammaVals == {Q(1, 2), Two}

\* the oracle of gamma: the value a for x below c, the value b from c on
GammaOracles ==
    {[a |-> a, b |-> b, c |-> Q(1, 2)] : a \in GammaVals, b \in GammaVals}

InitSLE ==
    /\ \E T_op \in Temps, py \in BOOLEAN, Tm \in MeltTemps, Hfus \in Enthalpies,
       model_type \in ModelTypes, params \in ParamDicts,
       t \in ExpOracles, g \in GammaOracles :
        sle = [pc |-> "call", T_op |-> T_op, py |-> py, Tm |-> Tm, Hfus |-> Hfus,
               model_type |-> model_type, params |-> params,
               tlo |-> t[1], thi |-> t[2], g |-> g, out |-> Raise("none")]
    /\ om = Idle /\ cn = Idle /\ stab = Idle /\ fit = Idle
    /\ prof = Idle /\ pred = Idle
    /\ worker = Idle /\ project = Idle

SolveSLE ==
    /\ sle.pc = "call"
    /\ \E o \in solve_sle_solubility(sle.T_op, sle.py, sle.Tm, sle.Hfus,
                                     sle.model_type, sle.params,
                                     sle.tlo, sle.thi, sle.g) :
          sle' = [sle EXCEPT !.pc = "done", !.out = o]
    /\ UNCHANGED <<om, cn, stab, fit, prof, pred, worker, project>>

NextSLE == SolveSLE

SpecSLE == InitSLE /\ [][NextSLE]_vars

(***************************************************************************)
(* Claims about solve_sle_solubility                                       *)
(***************************************************************************)
SleDone == sle.pc = "done"

\* C1: solve_sle_solubility returns exactly 1.0 whenever T_op >= Tm, for
\* every model name and every params value, also one without p12/p21.
C1_MeltReturnsOne ==
    (SleDone /\ FGe(sle.T_op, sle.Tm)) =>
        (sle.out.st = "ret" /\ sle.out.x = One)

\* a call with T_op >= Tm, an unknown model and params without p12/p21
C1_Witness ==
    /\ SleDone /\ FGe(sle.T_op, sle.Tm)
    /\ sle.model_type = "ideal" /\ "p12" \notin DOMAIN sle.params
    /\ sle.out.st = "ret"

\* C2: for T_op < Tm every value the solver returns lies in [0,1], on the
\* root-finder's path and on the bounded-minimisation fallback's.
C2_ResultInUnitInterval ==
    (SleDone /\ FLt(sle.T_op, sle.Tm) /\ sle.out.st = "ret") =>
        /\ sle.out.path \in {"brentq", "fallback"}
        /\ FLe(Zero, sle.out.x) /\ FLe(sle.out.x, One)

\* a call with T_op < Tm that took the fallback, the activity model raising
C2_Witness ==
    /\ SleDone /\ FLt(sle.T_op, sle.Tm)
    /\ sle.out.st = "ret" /\ sle.out.path = "fallback"
    /\ sle.model_type = "wilson" /\ "p12" \notin DOMAIN sle.params

\* C3: for T_op < Tm the solver never surfaces an error to its caller.
C3_NeverRaises ==
    (SleDone /\ FLt(sle.T_op, sle.Tm)) => sle.out.st = "ret"

(***************************************************************************)
(* A call of ThermoMath.activity_wilson                                    *)
(***************************************************************************)
\* the argument x1: the multiples of 1/XDen from -1 to 2, and NaN
WilsonFractions == {Q(i, XDen) : i \in (-XDen)..(2 * XDen)} \cup {NaN}

\* the arguments lambda_12 and lambda_21
WilsonLambdas ==
    {Q(-2, 1), Q(-1, 1), Zero, Q(1, 2), One, Q(2, 1), Inf(1), NaN}

InitWilson ==
    /\ \E x1 \in WilsonFractions, lambda_12 \in WilsonLambdas,
          lambda_21 \in WilsonLambdas, g \in GammaVals :
        sle = [pc |-> "gamma", x1 |-> x1, lambda_12 |-> lambda_12,
               lambda_21 |-> lambda_21, g |-> g, out |-> NaN]
    /\ om = Idle /\ cn = Idle /\ stab = Idle /\ fit = Idle
    /\ prof = Idle /\ pred = Idle
    /\ worker = Idle /\ project = Idle

CallWilson ==
    /\ sle.pc = "gamma"
    /\ sle' = [sle EXCEPT
                 !.pc = "returned",
                 !.out = activity_wilson(sle.x1, sle.lambda_12,
                                         sle.lambda_21, sle.g)]
    /\ UNCHANGED <<om, cn, stab, fit, prof, pred, worker, project>>

NextWilson == CallWilson

SpecWilson == InitWilson /\ [][NextWilson]_vars

WilsonReturned == sle.pc = "returned"

\* x1 + lambda_12 (1 - x1) and (1 - x1) + lambda_21 x1 of the call
WilsonTerm1 == FAdd(sle.x1, FMul(sle.lambda_12, FSub(One, sle.x1)))

WilsonTerm2 == FAdd(FSub(One, sle.x1), FMul(sle.lambda_21, sle.x1))

\* C15: activity_wilson returns the sentinel 1e6, and never NaN, whenever
\* x1 + lambda_12 (1 - x1) <= 0 or (1 - x1) + lambda_21 x1 <= 0.
C15_SentinelNotNaN ==
    (WilsonReturned /\ (FLe(WilsonTerm1, Zero) \/ FLe(WilsonTerm2, Zero))) =>
        /\ sle.out = Q(1000000, 1)
        /\ ~IsNaN(sle.out)

\* a call whose first term is negative, where the logarithm would be NaN,
\* and one whose first term is NaN and whose second is zero
C15_Witness ==
    /\ WilsonReturned /\ sle.out = Q(1000000, 1)
    /\ \/ FLt(WilsonTerm1, Zero) /\ IsNaN(Log(WilsonTerm1))
       \/ IsNaN(WilsonTerm1) /\ WilsonTerm2 = Zero

\* C16: with lambda_12 = lambda_21 = 1, activity_wilson returns 1.0 for
\* every x1 strictly between 0 and 1.
C16_IdealWilson ==
    (/\ WilsonReturned
     /\ sle.lambda_12 = One /\ sle.lambda_21 = One
     /\ FLt(Zero, sle.x1) /\ FLt(sle.x1, One)) =>
        sle.out = One

\* the ideal case at x1 = 1/XDen, whatever the oracle's exp value
C16_Witness ==
    /\ WilsonReturned
    /\ sle.lambda_12 = One /\ sle.lambda_21 = One
    /\ sle.x1 = Q(1, XDen) /\ sle.g # One
    /\ sle.out = One

(***************************************************************************)
(* ThermoMath.calculate_local_composition_ratio                            *)
(***************************************************************************)
\* (mutant) nan_to_num that replaces NaN only
nan_to_num_nan_only(v, posinf, neginf) == IF IsNaN(v) THEN Zero ELSE v

\* np.nan_to_num(v, posinf=..., neginf=...): NaN becomes 0.0, the
\* infinities become the values given
nan_to_num(v, posinf, neginf) ==
    IF IsNaN(v) THEN Zero
    ELSE IF v = Inf(1) THEN posinf
    ELSE IF v = Inf(-1) THEN neginf
    ELSE v

\* Omega = n_ij / n_jj element by element, 0.0 where n_jj == 0, then
\* nan_to_num(posinf=0.0, neginf=0.0); both arrays have the same length
calculate_local_composition_ratio(n_ij, n_jj) ==
    [i \in 1..Len(n_ij) |->
        LET omega == FDiv(n_ij[i], n_jj[i])
            fixed == IF FEq(n_jj[i], Zero) THEN Zero ELSE omega
        IN  nan_to_num(fixed, Zero, Zero)]

OmLen == 2

OmVals == {Q(-1, 1), Zero, One, Q(2, 1), Inf(1), NaN}

OmArrays == UNION {[1..n -> OmVals] : n \in 1..OmLen}

InitOmega ==
    /\ \E n_ij \in OmArrays, n_jj \in OmArrays :
        /\ Len(n_ij) = Len(n_jj)
        /\ om = [pc |-> "call", n_ij |-> n_ij, n_jj |-> n_jj, out |-> <<>>]
    /\ sle = Idle /\ cn = Idle /\ stab = Idle /\ fit = Idle
    /\ prof = Idle /\ pred = Idle
    /\ worker = Idle /\ project = Idle

CallOmega ==
    /\ om.pc = "call"
    /\ om' = [om EXCEPT !.pc = "done",
                        !.out = calculate_local_composition_ratio(om.n_ij,
                                                                  om.n_jj)]
    /\ UNCHANGED <<sle, cn, stab, fit, prof, pred, worker, project>>

NextOmega == CallOmega

SpecOmega == InitOmega /\ [][NextOmega]_vars

OmDone == om.pc = "done"

\* C4 (as stated): the result is exactly 0.0 at every position where n_jj
\* is 0 and the plain quotient n_ij/n_jj at every other position.
C4_PlainQuotient ==
    OmDone =>
        \A i \in 1..Len(om.n_jj) :
            om.out[i] = IF FEq(om.n_jj[i], Zero) THEN Zero
                        ELSE FDiv(om.n_ij[i], om.n_jj[i])

\* C4 (amended): the result is exactly 0.0 at every position where n_jj is
\* 0; at every other position it is the quotient n_ij/n_jj when that
\* quotient is finite and 0.0 when it is NaN or an infinity.
C4_FiniteQuotient ==
    OmDone =>
        \A i \in 1..Len(om.n_jj) :
            LET q == FDiv(om.n_ij[i], om.n_jj[i])
            IN  om.out[i] = IF FEq(om.n_jj[i], Zero) THEN Zero
                            ELSE IF IsFin(q) THEN q
                            ELSE Zero

\* a call with a position x/0, a position with a finite quotient and one
\* whose quotient is infinite
C4_Witness ==
    /\ OmDone /\ Len(om.n_jj) = 2
    /\ \E i, j \in 1..2 :
        /\ om.n_jj[i] = Zero /\ om.n_ij[i] = One /\ om.out[i] = Zero
        /\ om.n_jj[j] = Q(2, 1) /\ om.n_ij[j] = One /\ om.out[j] = Q(1, 2)

(***************************************************************************)
(* ThermoMath.calculate_coordination_number                                *)
(***************************************************************************)
\* np.pi
Pi == Q(355, 113)

\* the k-th element of integrate.cumulative_trapezoid(y, x, initial=0)
RECURSIVE CumTrap(_, _, _)
CumTrap(y, x, k) ==
    IF k = 1 THEN Zero
    ELSE FAdd(CumTrap(y, x, k - 1),
              FMul(FSub(x[k], x[k - 1]),
                   FDiv(FAdd(y[k], y[k - 1]), Q(2, 1))))

\* (mutant) cumulative_trapezoid without initial=0: one element shorter
cumulative_trapezoid_noinit(y, x) ==
    [k \in 1..(Len(y) - 1) |-> CumTrap(y, x, k + 1)]

\* integrate.cumulative_trapezoid(y, x, initial=0)
cumulative_trapezoid(y, x) == [k \in 1..Len(y) |-> CumTrap(y, x, k)]

\* cn_profile = number_density_j * cumulative_integral
cn_profile(density, cumulative_integral) ==
    [k \in 1..Len(cumulative_integral) |->
        FMul(density, cumulative_integral[k])]

\* N(r) = density * integral of 4 pi r^2 g(r)
calculate_coordination_number(r_nm, g_r, density) ==
    cn_profile(density,
               cumulative_trapezoid(
                   [i \in 1..Len(r_nm) |->
                       FMul(FMul(FMul(Q(4, 1), Pi), Square(r_nm[i])), g_r[i])],
                   r_nm))

CnLen == 3

CnRVals == {Zero, One, Q(2, 1)}

CnGVals == {Zero, One, Q(2, 1)}

CnDensities == {Q(-1, 1), Zero, One, Q(2, 1)}

InitCN ==
    /\ \E n \in 1..CnLen :
        \E r_nm \in [1..n -> CnRVals], g_r \in [1..n -> CnGVals],
           density \in CnDensities :
            cn = [pc |-> "call", r_nm |-> r_nm, g_r |-> g_r,
                  density |-> density, out |-> <<>>]
    /\ sle = Idle /\ om = Idle /\ stab = Idle /\ fit = Idle
    /\ prof = Idle /\ pred = Idle
    /\ worker = Idle /\ project = Idle

CallCN ==
    /\ cn.pc = "call"
    /\ cn' = [cn EXCEPT !.pc = "done",
                        !.out = calculate_coordination_number(cn.r_nm, cn.g_r,
                                                              cn.density)]
    /\ UNCHANGED <<sle, om, stab, fit, prof, pred, worker, project>>

NextCN == CallCN

SpecCN == InitCN /\ [][NextCN]_vars

CnDone == cn.pc = "done"

\* the result has r's length, starts at 0 and never decreases
CnShape ==
    /\ Len(cn.out) = Len(cn.r_nm)
    /\ cn.out[1] = Zero
    /\ \A k \in 1..(Len(cn.out) - 1) : FLe(cn.out[k], cn.out[k + 1])

\* C5 (as stated): for every r sequence and every g >= 0 the result has r's
\* length, its first element is 0 and it is non-decreasing.
C5_EveryR ==
    (CnDone /\ \A i \in 1..Len(cn.g_r) : FGe(cn.g_r[i], Zero)) => CnShape

\* C5 (amended): for every non-decreasing r sequence, every g >= 0 and every
\* density >= 0 the result has r's length, its first element is 0 and it is
\* non-decreasing.
C5_SortedR ==
    (/\ CnDone
     /\ \A i \in 1..Len(cn.g_r) : FGe(cn.g_r[i], Zero)
     /\ \A k \in 1..(Len(cn.r_nm) - 1) : FLe(cn.r_nm[k], cn.r_nm[k + 1])
     /\ FGe(cn.density, Zero)) => CnShape

\* a call on an increasing r of three points whose result grows strictly
C5_Witness ==
    /\ CnDone /\ Len(cn.r_nm) = 3
    /\ FLt(cn.r_nm[1], cn.r_nm[2]) /\ FLt(cn.r_nm[2], cn.r_nm[3])
    /\ \A i \in 1..3 : FGt(cn.g_r[i], Zero)
    /\ FGt(cn.density, Zero)
    /\ FLt(Zero, cn.out[2]) /\ FLt(cn.out[2], cn.out[3])

(***************************************************************************)
(* ThermoOptimizer.analyze_stability_region                                *)
(***************************************************************************)
\* the array <<F(1), ..., F(n)>>
RECURSIVE TabulateFrom(_, _, _)
TabulateFrom(F(_), lo, hi) ==
    IF lo > hi THEN <<>>
    ELSE IF lo = hi THEN <<F(lo)>>
    ELSE TabulateFrom(F, lo, (lo + hi) \div 2)
         \o TabulateFrom(F, (lo + hi) \div 2 + 1, hi)

Tabulate(F(_), n) == TabulateFrom(F, 1, n)

\* the default of the parameter window_width
WindowWidth == 50

\* the index read at position p of an array of n elements extended by
\* reflection (d c b a | a b c d | d c b a), scipy's mode 'reflect'
Reflect(p, n) ==
    LET m == (p - 1) % (2 * n)
    IN  IF m < n THEN m + 1 ELSE 2 * n - m

\* how many positions p of lo..hi have (p - 1) % m = c
CountMod(lo, hi, c, m) == ((hi - 1 - c) \div m) - ((lo - 2 - c) \div m)

\* how many positions of the window lo..hi read the element j, that is
\* Cardinality({p \in lo..hi : Reflect(p, n) = j})
Weight(j, lo, hi, n) ==
    CountMod(lo, hi, j - 1, 2 * n) + CountMod(lo, hi, 2 * n - j, 2 * n)

\* the sum of the extended array over the window lo..hi, element by element
\* of the array up to the element j
RECURSIVE WindowSum(_, _, _, _)
WindowSum(input, lo, hi, j) ==
    IF j = 0 THEN Zero
    ELSE FAdd(WindowSum(input, lo, hi, j - 1),
              FMul(Q(Weight(j, lo, hi, Len(input)), 1), input[j]))

\* ndimage.uniform_filter1d(input, size): the mean over the window
\* i - size // 2 .. i + size - size // 2 - 1 around every position i
uniform_filter1d(input, size) ==
    LET size1 == size \div 2
        size2 == size - size1 - 1
        mean(i) == FDiv(WindowSum(input, i - size1, i + size2, Len(input)),
                        Q(size, 1))
    IN  Tabulate(mean, Len(input))

\* np.gradient's second order formula for uneven spacing, at a point
\* between its neighbours at the distances dx1 and dx2
gradient_inside(f_before, f_at, f_after, dx1, dx2) ==
    LET a == FNeg(FDiv(dx2, FMul(dx1, FAdd(dx1, dx2))))
        b == FDiv(FSub(dx2, dx1), FMul(dx1, dx2))
        c == FDiv(dx1, FMul(dx2, FAdd(dx1, dx2)))
    IN  FAdd(FAdd(FMul(a, f_before), FMul(b, f_at)), FMul(c, f_after))

\* np.gradient(f, x) for at least two points: one-sided differences at the
\* ends, the second order formula for uneven spacing inside
gradient(f, x) ==
    LET n == Len(f)
        dx(i) == FSub(x[i + 1], x[i])
        out(i) ==
            IF i = 1 THEN FDiv(FSub(f[2], f[1]), dx(1))
            ELSE IF i = n THEN FDiv(FSub(f[n], f[n - 1]), dx(n - 1))
            ELSE gradient_inside(f[i - 1], f[i], f[i + 1], dx(i - 1), dx(i))
    IN  Tabulate(out, n)

\* the resolution 1/SqrtDen to which np.sqrt is computed
SqrtDen == 100

RECURSIVE ISqrtIn(_, _, _)
ISqrtIn(m, lo, hi) ==
    IF lo = hi THEN lo
    ELSE LET mid == (lo + hi + 1) \div 2
         IN  IF mid * mid <= m THEN ISqrtIn(m, mid, hi)
             ELSE ISqrtIn(m, lo, mid - 1)

\* the root of m / SqrtDen^2, rounded down to the resolution
SqrtOf(m) == Q(ISqrtIn(m, 0, IF m < 40000 THEN m ELSE 40000), SqrtDen)

\* np.sqrt: of a finite v >= 0 the root rounded down to the resolution
Sqrt(v) ==
    IF IsNaN(v) \/ FSign(v) < 0 THEN NaN
    ELSE IF IsInf(v) \/ IsUnk(v) THEN v
    ELSE SqrtOf((v.n * SqrtDen * SqrtDen) \div v.d)

\* variance[variance < 0] = 0, element by element
ClipNegative(v) == IF FLt(v, Zero) THEN Zero ELSE v

\* instability = (np.abs(gradient) ** 2) + local_std, of one curve
instability_of(smooth, grad, mean_sq) ==
    LET variance(i) == ClipNegative(FSub(mean_sq[i], Square(smooth[i])))
        instability(i) == FAdd(Square(grad[i]), Sqrt(variance(i)))
    IN  Tabulate(instability, Len(smooth))

\* the body of the loop over curves_list, from smooth on
instability_smooth(curve, smooth, r_axis, window_width) ==
    LET square(i) == Square(curve[i])
    IN  instability_of(smooth, gradient(smooth, r_axis),
                       uniform_filter1d(Tabulate(square, Len(curve)),
                                        window_width))

\* the contribution of one curve to total_instability
Instability(curve, r_axis, window_width) ==
    instability_smooth(curve, uniform_filter1d(curve, window_width),
                       r_axis, window_width)

\* the sum over the curves 1..k of instability[k][i]
RECURSIVE SumAt(_, _, _)
SumAt(instability, i, k) ==
    IF k = 0 THEN Zero
    ELSE FAdd(SumAt(instability, i, k - 1), instability[k][i])

\* total_instability += instability, over the curves: n is len(r_axis)
SumCurves(instability, n) ==
    LET total(i) == SumAt(instability, i, Len(instability))
    IN  Tabulate(total, n)

TotalInstability(curves_list, r_axis, window_width) ==
    SumCurves(Tabulate(LAMBDA k : Instability(curves_list[k], r_axis,
                                              window_width),
                       Len(curves_list)),
              Len(r_axis))

\* (mutant) the mask without its lower limit
valid_mask_no_floor(r_axis) ==
    {i \in 1..Len(r_axis) :
        FLt(r_axis[i], FMul(r_axis[Len(r_axis)], Q(9, 10)))}

\* valid_mask = (r_axis > 0.5) & (r_axis < r_axis[-1] * 0.9)
valid_mask(r_axis) ==
    {i \in 1..Len(r_axis) :
        /\ FGt(r_axis[i], Q(1, 2))
        /\ FLt(r_axis[i], FMul(r_axis[Len(r_axis)], Q(9, 10)))}

\* np.argmin restricted to the indices idx: the first index of the minimum
argmin(profile, idx) ==
    CHOOSE i \in idx :
        /\ \A j \in idx : FLe(profile[i], profile[j])
        /\ \A j \in idx : (j < i) => FLt(profile[i], profile[j])

\* the search of the minimum and the dict returned, after the loop
suggest(r_axis, total_instability, valid_indices) ==
    [st |-> "ret", stability_profile |-> total_instability,
     suggested_r |-> IF valid_indices # {}
                     THEN r_axis[argmin(total_instability, valid_indices)]
                     ELSE r_axis[(Len(r_axis) \div 2) + 1]]

analyze_stability_region(r_axis, curves_list, window_width) ==
    IF Len(curves_list) = 0 \/ Len(r_axis) = 0 THEN [st |-> "none"]
    ELSE IF Len(r_axis) < 2 THEN [st |-> "raise", exc |-> "ValueError"]
    ELSE suggest(r_axis,
                 TotalInstability(curves_list, r_axis, window_width),
                 valid_mask(r_axis))

StabLen == 3

MaxCurves == 2

StabRVals == {Q(1, 2), Q(9, 10), One, Q(2, 1)}

CurveVals == {Zero, One}

\* the radius axis of an RDF: strictly increasing
StabAxes ==
    {r \in UNION {[1..n -> StabRVals] : n \in 0..StabLen} :
        \A i \in 1..(Len(r) - 1) : FLt(r[i], r[i + 1])}

InitStab ==
    /\ \E r_axis \in StabAxes, c \in 0..MaxCurves :
        \E curves_list \in [1..c -> [1..Len(r_axis) -> CurveVals]] :
            stab = [pc |-> "call", r_axis |-> r_axis,
                    curves_list |-> curves_list, out |-> [st |-> "none"]]
    /\ sle = Idle /\ om = Idle /\ cn = Idle /\ fit = Idle
    /\ prof = Idle /\ pred = Idle
    /\ worker = Idle /\ project = Idle

CallStab ==
    /\ stab.pc = "call"
    /\ stab' = [stab EXCEPT
                  !.pc = "done",
                  !.out = analyze_stability_region(stab.r_axis,
                                                   stab.curves_list,
                                                   WindowWidth)]
    /\ UNCHANGED <<sle, om, cn, fit, prof, pred, worker, project>>

NextStab == CallStab

SpecStab == InitStab /\ [][NextStab]_vars

StabDone == stab.pc = "done"

\* max(r_axis), of a non-empty axis
MaxR(r_axis) ==
    CHOOSE m \in {r_axis[i] : i \in 1..Len(r_axis)} :
        \A i \in 1..Len(r_axis) : FLe(r_axis[i], m)

\* the indices of the elements strictly between 0.5 and 0.9 max(r_axis)
Inside(r_axis) ==
    {i \in 1..Len(r_axis) :
        /\ FLt(Q(1, 2), r_axis[i])
        /\ FLt(r_axis[i], FMul(Q(9, 10), MaxR(r_axis)))}

\* C6: whenever an element of r_axis lies strictly between 0.5 and
\* 0.9 max(r_axis), suggested_r is an element of r_axis strictly inside that
\* interval whose aggregated instability is minimal among its elements.
C6_SuggestedInside ==
    (StabDone /\ stab.out.st = "ret" /\ Inside(stab.r_axis) # {}) =>
        \E i \in Inside(stab.r_axis) :
            /\ stab.out.suggested_r = stab.r_axis[i]
            /\ \A j \in Inside(stab.r_axis) :
                FLe(stab.out.stability_profile[i],
                    stab.out.stability_profile[j])

\* a call where two elements lie inside the interval and the later one, of
\* strictly smaller instability, is suggested
C6_Witness ==
    /\ StabDone /\ stab.out.st = "ret"
    /\ \E i, j \in Inside(stab.r_axis) :
        /\ i < j
        /\ stab.out.suggested_r = stab.r_axis[j]
        /\ FLt(stab.out.stability_profile[j], stab.out.stability_profile[i])

(***************************************************************************)
(* ThermoOptimizer.fit_interaction_energies                                *)
(***************************************************************************)
\* F(1) + ... + F(n)
RECURSIVE SumOf(_, _)
SumOf(F(_), n) == IF n = 0 THEN Zero ELSE FAdd(SumOf(F, n - 1), F(n))

\* np.mean of a non-empty array
Mean(a) == FDiv(SumOf(LAMBDA i : a[i], Len(a)), Q(Len(a), 1))

\* (mutant) the loop appends every element, whatever its mask value
RECURSIVE CompressAll(_, _, _)
CompressAll(a, mask, k) ==
    IF k = 0 THEN <<>>
    ELSE IF k <= Len(a) THEN Append(CompressAll(a, mask, k - 1), a[k])
    ELSE CompressAll(a, mask, k - 1)

\* the elements of a whose mask value is true, in their order
RECURSIVE Compress(_, _, _)
Compress(a, mask, k) ==
    IF k = 0 THEN <<>>
    ELSE IF mask[k] THEN Append(Compress(a, mask, k - 1), a[k])
    ELSE Compress(a, mask, k - 1)

\* active_mask: None, or a list of booleans
NoMask == [given |-> FALSE, m |-> <<>>]

Mask(m) == [given |-> TRUE, m |-> m]

\* self.R of ThermoOptimizer
OptimizerR == RGas

FitRet(energy, params, error) ==
    [st |-> "ret", energy |-> energy, params |-> params, error |-> error]

FitRaise(exc) ==
    [st |-> "raise", exc |-> exc, energy |-> NaN, params |-> <<NaN, NaN>>,
     error |-> NaN]

\* the value returned for zero active points
ZeroFit == FitRet(Zero, <<Zero, Zero>>, Zero)

\* (mutant) the test for zero active points never succeeds
NoActivePointNever(T_arr) == FALSE

\* len(T_arr) == 0
NoActivePoint(T_arr) == Len(T_arr) = 0

\* np.sqrt(np.mean(res ** 2))
Rms(res) ==
    Sqrt(FDiv(SumOf(LAMBDA i : Square(res[i]), Len(res)), Q(Len(res), 1)))

\* the dict the theoretical mode returns for the minimiser x and the
\* residuals fun there: energy x, params [0, x/R], the root mean square
least_squares_result(x, fun) ==
    FitRet(x, <<Zero, FDiv(x, OptimizerR)>>, Rms(fun))

\* the minimiser and the residuals, from slope = sum(Y/T) / sum(1/T^2)
least_squares_at(Y_arr, T_arr, sign, slope) ==
    least_squares_result(
        FMul(FMul(Q(sign, 1), OptimizerR), slope),
        Tabulate(LAMBDA i : FSub(Y_arr[i], FDiv(slope, T_arr[i])),
                 Len(T_arr)))

\* optimize.least_squares on the residuals Y[i] - x * c / T[i] (c is 1/R or
\* -1/R): it raises when a residual is not finite at the initial guess and
\* otherwise returns the minimiser
\*     x = (1/c) * sum(Y[i]/T[i]) / sum(1/T[i]^2)
\* together with the residuals there, which do not depend on c
least_squares(Y_arr, T_arr, sign) ==
    LET n == Len(T_arr)
        yt(i) == FDiv(Y_arr[i], T_arr[i])
        tt(i) == FDiv(One, Square(T_arr[i]))
    IN  IF \/ n = 0
           \/ \E i \in 1..n :
                \/ IsNaN(Y_arr[i]) \/ IsInf(Y_arr[i])
                \/ IsNaN(T_arr[i]) \/ T_arr[i] = Zero
        THEN FitRaise("ValueError")
        ELSE least_squares_at(Y_arr, T_arr, sign,
                              FDiv(SumOf(yt, n), SumOf(tt, n)))

\* (mutant) the intercept returned drifts once the object has fitted before
polyfit_line_drifting(X_arr, Y_arr, slope, intercept) ==
    FitRet(Zero,
           <<IF fit.pc = "call" THEN intercept ELSE FAdd(intercept, One), slope>>,
           Rms([i \in 1..Len(X_arr) |->
                   FSub(Y_arr[i], FAdd(intercept, FMul(slope, X_arr[i])))]))

\* the dict the empirical mode returns for a fitted line: params [A, B]
\* and the root mean square of Y - (A + B X)
polyfit_line(X_arr, Y_arr, slope, intercept) ==
    LET res(i) == FSub(Y_arr[i], FAdd(intercept, FMul(slope, X_arr[i])))
    IN  FitRet(Zero, <<intercept, slope>>, Rms(Tabulate(res, Len(X_arr))))

\* the intercept of the fitted line, from its slope
polyfit_slope(X_arr, Y_arr, xm, ym, deficient, slope) ==
    polyfit_line(X_arr, Y_arr, slope,
                 IF deficient THEN FDiv(ym, Two)
                 ELSE FSub(ym, FMul(slope, xm)))

\* the slope of the fitted line, from the means of X and Y
polyfit_means(X_arr, Y_arr, xm, ym, deficient) ==
    LET sxy(i) == FMul(FSub(X_arr[i], xm), FSub(Y_arr[i], ym))
        sxx(i) == Square(FSub(X_arr[i], xm))
    IN  polyfit_slope(X_arr, Y_arr, xm, ym, deficient,
                      IF deficient THEN FDiv(ym, FMul(Two, xm))
                      ELSE FDiv(SumOf(sxy, Len(X_arr)),
                                SumOf(sxx, Len(X_arr))))

\* np.polyfit(X, Y, 1) and the error of the fitted line: the line of least
\* squares; when all the X are equal the system is rank deficient and the
\* solution of minimum norm (on the scaled columns) is returned
polyfit(X_arr, Y_arr) ==
    IF Len(X_arr) = 0 THEN FitRaise("TypeError")
    ELSE IF \E i \in 1..Len(X_arr) :
               \/ IsNaN(X_arr[i]) \/ IsInf(X_arr[i])
               \/ IsNaN(Y_arr[i]) \/ IsInf(Y_arr[i])
    THEN FitRaise("LinAlgError")
    ELSE polyfit_means(X_arr, Y_arr, Mean(X_arr), Mean(Y_arr),
                       \A i \in 1..Len(X_arr) : X_arr[i] = X_arr[1])

\* fit_interaction_energies from T_arr and P_arr on
fit_arrays(T_arr, P_arr, model_type, opt_method) ==
    LET ln_obs(i) == Log(FMax(P_arr[i], ClampEps))
        recip(i) == FDiv(One, T_arr[i])
    IN  IF NoActivePoint(T_arr) THEN ZeroFit
        ELSE IF opt_method = "theoretical"
        THEN (IF model_type = "nrtl" THEN least_squares(P_arr, T_arr, 1)
              ELSE least_squares(Tabulate(ln_obs, Len(T_arr)), T_arr, -1))
        ELSE polyfit(Tabulate(recip, Len(T_arr)),
                     IF model_type = "nrtl" THEN P_arr
                     ELSE Tabulate(ln_obs, Len(T_arr)))

\* the loop over active_mask, which reads both lists at every active index
fit_masked(temperature_list, param_list, model_type, opt_method, mask) ==
    IF \E i \in 1..Len(mask) :
          mask[i] /\ (i > Len(temperature_list) \/ i > Len(param_list))
    THEN FitRaise("IndexError")
    ELSE fit_arrays(Compress(temperature_list, mask, Len(mask)),
                    Compress(param_list, mask, Len(mask)),
                    model_type, opt_method)

fit_interaction_energies(temperature_list, param_list, model_type, opt_method, active_mask) ==
    fit_masked(temperature_list, param_list, model_type, opt_method,
               IF active_mask.given THEN active_mask.m
               ELSE [i \in 1..Len(temperature_list) |-> TRUE])

FitLen == 2

FitTemps == {Zero, One, Q(2, 1)}

FitParams == {Zero, One, Q(2, 1)}

FitModels == {"wilson", "nrtl", "uniquac"}

FitMethods == {"theoretical", "empirical"}

\* the masks a caller may pass: None, or a list of booleans of any length
FitMasks == {NoMask} \cup {Mask(m) : m \in UNION {[1..k -> BOOLEAN] : k \in 0..FitLen}}

InitFit ==
    /\ \E n \in 0..FitLen :
        \E temperature_list \in [1..n -> FitTemps],
           param_list \in [1..n -> FitParams],
           active_mask \in FitMasks,
           model_type \in FitModels, opt_method \in FitMethods :
            fit = [pc |-> "call", temperature_list |-> temperature_list,
                   param_list |-> param_list, active_mask |-> active_mask,
                   model_type |-> model_type, opt_method |-> opt_method,
                   out |-> FitRaise("none"), again |-> FitRaise("none")]
    /\ sle = Idle /\ om = Idle /\ cn = Idle /\ stab = Idle
    /\ prof = Idle /\ pred = Idle
    /\ worker = Idle /\ project = Idle

CallFit ==
    /\ fit.pc = "call"
    /\ fit' = [fit EXCEPT
                 !.pc = "done",
                 !.out = fit_interaction_energies(fit.temperature_list,
                                                  fit.param_list,
                                                  fit.model_type,
                                                  fit.opt_method,
                                                  fit.active_mask)]
    /\ UNCHANGED <<sle, om, cn, stab, prof, pred, worker, project>>

\* a second call on the same optimizer object, with the same arguments
Refit ==
    /\ fit.pc = "done"
    /\ fit' = [fit EXCEPT
                 !.pc = "refitted",
                 !.again = fit_interaction_energies(fit.temperature_list,
                                                    fit.param_list,
                                                    fit.model_type,
                                                    fit.opt_method,
                                                    fit.active_mask)]
    /\ UNCHANGED <<sle, om, cn, stab, prof, pred, worker, project>>

NextFit == CallFit \/ Refit

SpecFit == InitFit /\ [][NextFit]_vars

FitDone == fit.pc \in {"done", "refitted"}

\* the call has no active point: the lists are empty, or the mask is False
\* everywhere
ZeroActive ==
    IF fit.active_mask.given
    THEN \A i \in 1..Len(fit.active_mask.m) : ~fit.active_mask.m[i]
    ELSE Len(fit.temperature_list) = 0

\* C10: with zero active points fit_interaction_energies returns energy 0,
\* params [0, 0] and error 0, for every model and both methods, and does not
\* raise.
C10_ZeroActiveIsNoOp ==
    (FitDone /\ ZeroActive) =>
        /\ fit.out.st = "ret"
        /\ fit.out.energy = Zero
        /\ fit.out.params = <<Zero, Zero>>
        /\ fit.out.error = Zero

\* a call on two points, both masked out, under the empirical method
C10_Witness ==
    /\ FitDone /\ Len(fit.temperature_list) = 2
    /\ fit.active_mask = Mask(<<FALSE, FALSE>>)
    /\ fit.opt_method = "empirical" /\ fit.model_type = "wilson"
    /\ fit.out = ZeroFit

\* the positions at which a mask holds True
TruePositions(mask) == {i \in 1..Len(mask) : mask[i]}

\* the subsequence of a at the True positions of mask, in the original order
AtTrue(a, mask) ==
    [j \in 1..Cardinality(TruePositions(mask)) |->
        a[CHOOSE i \in TruePositions(mask) :
            Cardinality({h \in TruePositions(mask) : h <= i}) = j]]

\* the call passes a mask, and every True position of it is a position of
\* both lists
MaskedCall ==
    /\ FitDone /\ fit.active_mask.given
    /\ \A i \in TruePositions(fit.active_mask.m) :
          i <= Len(fit.temperature_list) /\ i <= Len(fit.param_list)

\* C11: fit_interaction_energies with a mask returns what it returns, with
\* no mask, on the subsequences of temperature_list and param_list at the
\* True positions of the mask, in their original order; the entries at the
\* False positions, and those past the end of the mask, have no effect.
C11_OnlyActiveEntries ==
    MaskedCall =>
        fit.out = fit_interaction_energies(
                      AtTrue(fit.temperature_list, fit.active_mask.m),
                      AtTrue(fit.param_list, fit.active_mask.m),
                      fit.model_type, fit.opt_method, NoMask)

\* a call on two points of which the mask keeps the second only, and whose
\* result differs from that of the unmasked call on both points
C11_Witness ==
    /\ MaskedCall /\ fit.active_mask.m = <<FALSE, TRUE>>
    /\ Len(fit.temperature_list) = 2
    /\ fit.out.st = "ret"
    /\ fit.out # fit_interaction_energies(fit.temperature_list,
                                          fit.param_list, fit.model_type,
                                          fit.opt_method, NoMask)
    /\ fit.out = fit_interaction_energies(<<fit.temperature_list[2]>>,
                                          <<fit.param_list[2]>>,
                                          fit.model_type, fit.opt_method,
                                          NoMask)

NoneF == [some |-> FALSE, v |-> Zero]

SomeF(v) == [some |-> TRUE, v |-> v]

\* an optional array, as p12 and p21 of a record are
NoneArr == [some |-> FALSE, a |-> <<>>]

SomeArr(a) == [some |-> TRUE, a |-> a]

\* Python's truth of an optional float: None and 0.0 are false
Truthy(o) == o.some /\ o.v # Zero

\* a file of the storage: whether it exists and what
\* AnalysisParser.get_data_from_file returns for it, the x column and the
\* list of y columns (both empty for an unreadable or empty file)
NoFile == [exists |-> FALSE, x |-> <<>>, ys |-> <<>>]

BadFile == [exists |-> TRUE, x |-> <<>>, ys |-> <<>>]

DataFile(x, y) == [exists |-> TRUE, x |-> x, ys |-> <<y>>]

\* the energy file of a simulation: the mean of its Volume column, the mean
\* of the column read as Temperature and the label of that column's axis
NoEdr == [exists |-> FALSE, vol |-> NoneF, temp |-> NoneF, label |-> ""]

Edr(vol, temp, label) ==
    [exists |-> TRUE, vol |-> vol, temp |-> temp, label |-> label]

\* the y axis labels that mention pressure, density or virial
RejectedLabels == {"Pressure (bar)", "Density (kg/m^3)", "Virial"}

\* (mutant) get_physical_data without the validation of the temperature
get_physical_data_unvalidated(edr) ==
    IF ~edr.exists THEN <<NoneF, NoneF>> ELSE <<edr.vol, edr.temp>>

\* get_physical_data(path, base_name) -> (vol_avg, temp_avg)
get_physical_data(edr) ==
    IF ~edr.exists THEN <<NoneF, NoneF>>
    ELSE LET label_ok == edr.label \notin RejectedLabels
             range_ok == /\ FLt(Q(10, 1), edr.temp.v)
                         /\ FLt(edr.temp.v, Q(10000, 1))
         IN  <<edr.vol,
               IF edr.temp.some /\ label_ok /\ range_ok THEN edr.temp
               ELSE NoneF>>

\* the name of a simulation: its step prefix and the number that the
\* pattern [-_](\d{3}) finds in it (-1 when it finds none)
SimName(prefix, token) == [prefix |-> prefix, token |-> token]

\* 6.022e23 / 1e21, of the volume estimated from the masses
AvogadroScaled == Q(6022, 10)

\* the last resort of the temperature
DefaultTemperature == Q(29815, 100)

(***************************************************************************)
(* ThermoMath: from Omega to the parameters of a model                     *)
(***************************************************************************)
\* get_wilson_params(omega_12, omega_21, v1, v2); v1 and v2 are Python
\* floats, whose division by zero raises
get_wilson_params(omega_12, omega_21, v1, v2) ==
    IF PyDivRaises(v1) \/ PyDivRaises(v2)
    THEN [raised |-> TRUE, p12 |-> NoneArr, p21 |-> NoneArr]
    ELSE LET lambda_12(i) == FMul(FDiv(v2, v1), omega_12[i])
             lambda_21(i) == FMul(FDiv(v1, v2), omega_21[i])
         IN  [raised |-> FALSE,
              p12 |-> SomeArr(Tabulate(lambda_12, Len(omega_12))),
              p21 |-> SomeArr(Tabulate(lambda_21, Len(omega_21)))]

\* the default of get_nrtl_params' parameter alpha
NrtlAlpha == Q(3, 10)

\* get_nrtl_params(omega_12, omega_21, alpha=0.3)
get_nrtl_params(omega_12, omega_21) ==
    LET tau_12(i) == FDiv(FNeg(Log(FMax(omega_12[i], ClampEps))), NrtlAlpha)
        tau_21(i) == FDiv(FNeg(Log(FMax(omega_21[i], ClampEps))), NrtlAlpha)
    IN  [raised |-> FALSE,
         p12 |-> SomeArr(Tabulate(tau_12, Len(omega_12))),
         p21 |-> SomeArr(Tabulate(tau_21, Len(omega_21)))]

\* the model's parameters as both calculate_params_profile and
\* recalculate_model_params choose them: None for any other model
ModelParams(model_type, omega12, omega21, v1, v2) ==
    IF model_type = "wilson" THEN get_wilson_params(omega12, omega21, v1, v2)
    ELSE IF model_type = "nrtl" THEN get_nrtl_params(omega12, omega21)
    ELSE [raised |-> FALSE, p12 |-> NoneArr, p21 |-> NoneArr]

(***************************************************************************)
(* SolubilityManager.calculate_params_profile                              *)
(***************************************************************************)
Min2(a, b) == IF a < b THEN a ELSE b

\* (mutant) a[:n - 1]
PrefixShort(a, n) == SubSeq(a, 1, n - 1)

\* a[:n]
Prefix(a, n) == SubSeq(a, 1, n)

Skip == [st |-> "skip"]

\* the record stored for a simulation, once its parameters are computed
simulation_record(sys_data, sim, r, omega12, omega21, p, temp_real) ==
    IF p.raised THEN [st |-> "raise"]
    ELSE [st |-> "rec",
          rec |-> [system |-> sys_data.name, simulation |-> sim.name,
                   r |-> r, omega12 |-> omega12, omega21 |-> omega21,
                   p12 |-> p.p12, p21 |-> p.p21,
                   x_solute |-> sys_data.x_solute,
                   temperature |-> temp_real]]

\* the choice of the model's parameters, from omega12 and omega21
simulation_params(sys_data, sim, model_type, r, omega12, omega21, temp_real) ==
    simulation_record(sys_data, sim, r, omega12, omega21,
                      ModelParams(model_type, omega12, omega21,
                                  sys_data.v1, sys_data.v2),
                      temp_real)

\* the two ratios of local composition, from the coordination numbers
simulation_coordination(sys_data, sim, model_type, r, n11, n22, n12, n21, temp_real) ==
    simulation_params(sys_data, sim, model_type, r,
                      calculate_local_composition_ratio(n12, n22),
                      calculate_local_composition_ratio(n21, n11),
                      temp_real)

\* the truncation of the arrays and the four coordination numbers, from
\* the densities rho1 and rho2
simulation_omegas(sys_data, sim, model_type, rho1, rho2, temp_real) ==
    LET min_len == Min2(Min2(Len(sim.f11.x), Len(sim.f11.ys[1])),
                        Min2(Len(sim.f22.ys[1]), Len(sim.f12.ys[1])))
        r == Prefix(sim.f11.x, min_len)
        g11 == Prefix(sim.f11.ys[1], min_len)
        g22 == Prefix(sim.f22.ys[1], min_len)
        g12 == Prefix(sim.f12.ys[1], min_len)
    IN  simulation_coordination(
            sys_data, sim, model_type, r,
            calculate_coordination_number(r, g11, rho1),
            calculate_coordination_number(r, g22, rho2),
            calculate_coordination_number(r, g12, rho2),
            calculate_coordination_number(r, g12, rho1),
            temp_real)

\* the body of the loop over the rdf_12 files of a system: the simulation
\* is skipped, or yields a record, or raises
process_simulation(sys_data, sim, step_prefix, model_type, solute_mw, solvent_mw) ==
    IF sim.name.prefix # step_prefix THEN Skip
    ELSE IF ~(sim.f11.exists /\ sim.f22.exists) THEN Skip
    ELSE
    LET phys == get_physical_data(sim.edr)
        n1 == Q(sys_data.n_solute, 1)
        n2 == Q(sys_data.n_solvent, 1)
        estimated == ~Truthy(phys[1])
        vol_real ==
            IF estimated
            THEN FDiv(FAdd(FMul(n1, solute_mw), FMul(n2, solvent_mw)),
                      AvogadroScaled)
            ELSE phys[1].v
        temp_real ==
            IF Truthy(phys[2]) THEN phys[2].v
            ELSE IF sim.name.token >= 100 /\ sim.name.token <= 1000
                 THEN Q(sim.name.token, 1)
            ELSE DefaultTemperature
    IN
    IF estimated /\ PyDivRaises(vol_real) THEN Skip
    ELSE IF Len(sim.f11.ys) = 0 \/ Len(sim.f22.ys) = 0 \/ Len(sim.f12.ys) = 0
         THEN Skip
    ELSE simulation_omegas(sys_data, sim, model_type,
                           FDiv(n1, vol_real), FDiv(n2, vol_real), temp_real)

\* (mutant) the simulations of a system, whatever the state of its folder
ListedAnyway(storage, sys_name) == storage[sys_name].sims

\* the simulations whose rdf_12 file os.listdir finds for a system: none
\* when solubility_data does not exist or cannot be listed
Listed(storage, sys_name) ==
    IF storage[sys_name].folder = "ok" THEN storage[sys_name].sims ELSE <<>>

\* the loop over the rdf_12 files of a system
system_outcomes(sys_data, sims, step_prefix, model_type, solute_mw, solvent_mw) ==
    Tabulate(LAMBDA j : process_simulation(sys_data, sims[j], step_prefix,
                                           model_type, solute_mw, solvent_mw),
             Len(sims))

\* what the simulations of all the systems came to
AllOutcomes(outcomes) ==
    UNION {{outcomes[i][j] : j \in 1..Len(outcomes[i])} :
              i \in 1..Len(outcomes)}

\* results[f"{sys_name}::{sim_name}"] = record, for every record
results_dict(recs) ==
    [k \in {<<rec.system, rec.simulation>> : rec \in recs} |->
        CHOOSE rec \in recs : rec.system = k[1] /\ rec.simulation = k[2]]

\* the call's outcome: an exception of a simulation leaves the call
profile_of(all) ==
    IF \E o \in all : o.st = "raise" THEN [st |-> "raise", results |-> <<>>]
    ELSE [st |-> "ret",
          results |-> results_dict({o.rec : o \in {o \in all : o.st = "rec"}})]

\* calculate_params_profile(systems_config, step_prefix, model_type,
\* solute_mw, solvent_mw) on the storage: the dict of records under the keys
\* "system::simulation", unless a simulation raises
calculate_params_profile(storage, systems_config, step_prefix, model_type, solute_mw, solvent_mw) ==
    profile_of(AllOutcomes(
        Tabulate(LAMBDA i : system_outcomes(
                                systems_config[i],
                                Listed(storage, systems_config[i].name),
                                step_prefix, model_type, solute_mw, solvent_mw),
                 Len(systems_config))))

(***************************************************************************)
(* SolubilityManager.recalculate_model_params                              *)
(***************************************************************************)
\* (mutant) the default molar volume, whatever was passed
VolumeOrDefaultAlways(v, default) == default

\* "v1 if v1 else 300.0"
VolumeOrDefault(v, default) == IF v = Zero THEN default ELSE v

\* (mutant) the update also resets the temperature of the record
with_params_reset(data, p) ==
    [data EXCEPT !.p12 = p.p12, !.p21 = p.p21,
                 !.temperature = DefaultTemperature]

\* data['p12'] = p12 and data['p21'] = p21
with_params(data, p) == [data EXCEPT !.p12 = p.p12, !.p21 = p.p21]

\* recalculate_model_params(current_results, model_type, v1, v2): the
\* records after the call (every record caches omega12 and omega21)
recalculate_model_params(current_results, model_type, v1, v2) ==
    [k \in DOMAIN current_results |->
        with_params(current_results[k],
                    ModelParams(model_type, current_results[k].omega12,
                                current_results[k].omega21,
                                VolumeOrDefault(v1, Q(300, 1)),
                                VolumeOrDefault(v2, Q(100, 1))))]

(***************************************************************************)
(* A project's storage, and the calls made on it                           *)
(***************************************************************************)
MaxItems == 2

StepPrefix == "prod"

SoluteMw == Q(3011, 10)

SolventMw == Q(3011, 100)

Radii2 == <<Q(1, 2), One>>

Radii3 == <<Q(1, 2), One, Q(2, 1)>>

\* the simulation at position i of the storage, by what is wrong with it:
\*   "ok"       three readable RDF files and energy data
\*   "degraded" no energy data, and an rdf_22 file longer than the others
\*   "no11"     the rdf_11 file is missing (incomplete triplet)
\*   "bad12"    the rdf_12 file is unreadable or empty
\*   "prefix"   a simulation of another step
SimOfKind(kind, i) ==
    [name |-> SimName(IF kind = "prefix" THEN "eq" ELSE StepPrefix,
                      290 + 10 * i),
     f11 |-> IF kind = "no11" THEN NoFile
             ELSE DataFile(Radii2, <<Zero, Q(2, 1)>>),
     f22 |-> IF kind = "degraded" THEN DataFile(Radii3, <<One, One, One>>)
             ELSE DataFile(Radii2, <<One, One>>),
     f12 |-> IF kind = "bad12" THEN BadFile
             ELSE DataFile(Radii2, <<One, Q(2, 1)>>),
     edr |-> IF kind = "degraded" THEN NoEdr
             ELSE Edr(SomeF(Q(10, 1)), SomeF(Q(300, 1)), "Temperature (K)")]

EntryKinds ==
    {<<"A", k>> : k \in {"ok", "degraded", "no11", "prefix"}}
    \cup {<<"B", k>> : k \in {"ok", "bad12"}}

\* the simulations of the system sys among the entries, in their order
RECURSIVE SimsOf(_, _, _)
SimsOf(entries, sys, k) ==
    IF k = 0 THEN <<>>
    ELSE IF entries[k][1] = sys
         THEN Append(SimsOf(entries, sys, k - 1), SimOfKind(entries[k][2], k))
    ELSE SimsOf(entries, sys, k - 1)

\* the state of a system's folder: complete, missing, without its
\* solubility_data directory, or with one that cannot be listed
FolderStates == {"ok", "nofolder", "nodir", "unlistable"}

\* the molar volumes (v1, v2) of the spin boxes
VolPairs == {<<Q(200, 1), Q(50, 1)>>, <<Zero, Q(100, 1)>>}

\* the models the program offers
OfferedModels == {"wilson", "nrtl", "uniquac"}

\* the rows of the table of systems
Config(v) ==
    <<[name |-> "A", x_solute |-> Q(1, 10), n_solute |-> 10,
       n_solvent |-> 100, v1 |-> v[1], v2 |-> v[2]],
      [name |-> "B", x_solute |-> Q(1, 5), n_solute |-> 20,
       n_solvent |-> 100, v1 |-> v[1], v2 |-> v[2]]>>

Call(op, model_type, v) ==
    [op |-> op, model_type |-> model_type, v1 |-> v[1], v2 |-> v[2]]

InitProfile ==
    /\ \E n \in 0..MaxItems :
        \E entries \in [1..n -> EntryKinds], folderA \in FolderStates,
           model_type \in OfferedModels, v \in VolPairs :
            prof = [pc |-> "ready",
                    storage |->
                        [sys \in {"A", "B"} |->
                            [folder |-> IF sys = "A" THEN folderA ELSE "ok",
                             sims |-> SimsOf(entries, sys, n)]],
                    systems_config |-> Config(v),
                    first |-> Call("calc", model_type, v),
                    last |-> Call("none", model_type, v),
                    stored |-> <<>>,
                    results |-> <<>>]
    /\ sle = Idle /\ om = Idle /\ cn = Idle /\ stab = Idle /\ fit = Idle
    /\ pred = Idle
    /\ worker = Idle /\ project = Idle

\* SolubilityTab.on_batch_finished: calculated_results = the profile
CalcProfile ==
    /\ prof.pc = "ready"
    /\ \E out \in {calculate_params_profile(prof.storage, prof.systems_config,
                                            StepPrefix, prof.first.model_type,
                                            SoluteMw, SolventMw)} :
          prof' = [prof EXCEPT
                     !.pc = IF out.st = "ret" THEN "calculated" ELSE "failed",
                     !.last = prof.first,
                     !.stored = out.results,
                     !.results = out.results]
    /\ UNCHANGED <<sle, om, cn, stab, fit, pred, worker, project>>

\* SolubilityTab.on_params_changed: the model or a molar volume was changed
Recalc ==
    /\ prof.pc = "calculated"
    /\ \E model_type \in OfferedModels, v \in VolPairs :
        prof' = [prof EXCEPT
                   !.last = Call("recalc", model_type, v),
                   !.results = recalculate_model_params(prof.results,
                                                        model_type,
                                                        v[1], v[2])]
    /\ UNCHANGED <<sle, om, cn, stab, fit, pred, worker, project>>

NextProfile == CalcProfile \/ Recalc

SpecProfile == InitProfile /\ [][NextProfile]_vars

ProfileDone == prof.pc \in {"calculated", "failed"}

\* the last call was recalculate_model_params with the model and the molar
\* volumes of the call of calculate_params_profile that built the profile
SameArguments ==
    /\ prof.last.op = "recalc"
    /\ prof.last.model_type = prof.first.model_type
    /\ prof.last.v1 = prof.first.v1
    /\ prof.last.v2 = prof.first.v2

\* C7: recalculate_model_params on a profile, with the model and the molar
\* volumes that calculate_params_profile built the profile with, leaves in
\* every record the p12 and p21 that calculate_params_profile had stored,
\* for Wilson, NRTL and UNIQUAC alike, whatever was recalculated in between.
C7_RecalcReproducesCalc ==
    (prof.pc = "calculated" /\ SameArguments) =>
        /\ DOMAIN prof.results = DOMAIN prof.stored
        /\ \A k \in DOMAIN prof.stored :
            /\ prof.results[k].p12 = prof.stored[k].p12
            /\ prof.results[k].p21 = prof.stored[k].p21

C7_Witness ==
    /\ prof.pc = "calculated"
    /\ SameArguments
    /\ prof.last.model_type = "wilson"
    /\ \E k \in DOMAIN prof.results :
        /\ prof.results[k].p12.some
        /\ \E i \in 1..Len(prof.results[k].p12.a) :
            prof.results[k].p12.a[i] # Zero

\* the fields of a record other than p12 and p21
FrameFields ==
    {"r", "omega12", "omega21", "temperature", "x_solute", "system",
     "simulation"}

\* C23: recalculate_model_params changes nothing but p12 and p21 of the
\* records: after any number of recalculations the profile has the keys
\* that calculate_params_profile stored, every record has the fields it
\* had, and r, omega12, omega21, temperature, x_solute, system and
\* simulation hold what was stored.
C23_RecalcFrame ==
    (prof.pc = "calculated") =>
        /\ DOMAIN prof.results = DOMAIN prof.stored
        /\ \A k \in DOMAIN prof.stored :
            /\ DOMAIN prof.results[k] = DOMAIN prof.stored[k]
            /\ \A f \in FrameFields :
                   prof.results[k][f] = prof.stored[k][f]

\* a recalculation that changed the p12 of a record with radii
C23_Witness ==
    /\ prof.pc = "calculated"
    /\ prof.last.op = "recalc"
    /\ \E k \in DOMAIN prof.results :
        /\ Len(prof.results[k].r) > 0
        /\ prof.results[k].p12 # prof.stored[k].p12

\* a simulation of the storage with nothing missing: its system's
\* solubility_data can be listed, it belongs to the requested step, and its
\* three RDF files exist and hold a column of data
WellFormed(sys_name, sim) ==
    /\ prof.storage[sys_name].folder = "ok"
    /\ sim.name.prefix = StepPrefix
    /\ sim.f11.exists /\ sim.f22.exists /\ sim.f12.exists
    /\ Len(sim.f11.ys) > 0 /\ Len(sim.f22.ys) > 0 /\ Len(sim.f12.ys) > 0

\* the keys of the well-formed simulations of the storage
WellFormedKeys ==
    UNION {{<<sys_name, prof.storage[sys_name].sims[i].name>> :
               i \in {i \in 1..Len(prof.storage[sys_name].sims) :
                         WellFormed(sys_name, prof.storage[sys_name].sims[i])}} :
           sys_name \in DOMAIN prof.storage}

\* the molar volumes that Wilson's conversion divides by are not zero
DivisibleVolumes ==
    prof.first.model_type = "wilson" =>
        ~PyDivRaises(prof.first.v1) /\ ~PyDivRaises(prof.first.v2)

C17_ParameterSequences ==
    (prof.pc = "calculated") =>
        \A k \in DOMAIN prof.results :
            /\ prof.results[k].p12.some /\ prof.results[k].p21.some
            /\ Len(prof.results[k].p12.a) = Len(prof.results[k].r)
            /\ Len(prof.results[k].p21.a) = Len(prof.results[k].r)

(***************************************************************************)
(* One pass of the loop of calculate_params_profile                        *)
(***************************************************************************)
\* the mean of the Volume column: no column, or a value
EdrVolumes == {NoneF, SomeF(Zero), SomeF(Q(-10, 1)), SomeF(Q(10, 1))}

\* the mean of the column read as Temperature: no column, or a value
EdrTemperatures ==
    {NoneF, SomeF(Zero), SomeF(Q(10, 1)), SomeF(Q(300, 1)),
     SomeF(Q(10000, 1))}

\* the label of the y axis of the temperature file ("" when it has none)
EdrLabels == {"Temperature (K)", "", "Pressure (bar)"}

\* the energy file of the simulation
EdrFiles ==
    {NoEdr} \cup {Edr(v, t, l) : v \in EdrVolumes, t \in EdrTemperatures,
                                 l \in EdrLabels}

\* what [-_](\d{3}) finds in the name of the simulation (-1: nothing)
NameTokens == {-1, 99, 100, 999}

\* the numbers of molecules typed into a row of the table of systems
MoleculeCounts == {<<10, 100>>, <<0, 100>>, <<10, 0>>, <<0, 0>>}

\* a simulation of the requested step with its three RDF files
SimulationOf(edr, token) ==
    [name |-> SimName(StepPrefix, token),
     f11 |-> DataFile(Radii2, <<Zero, Q(2, 1)>>),
     f22 |-> DataFile(Radii2, <<One, One>>),
     f12 |-> DataFile(Radii2, <<One, Q(2, 1)>>),
     edr |-> edr]

\* the row of the table of systems the simulation belongs to
SystemRow(counts) ==
    [name |-> "A", x_solute |-> Q(1, 10), n_solute |-> counts[1],
     n_solvent |-> counts[2], v1 |-> Q(200, 1), v2 |-> Q(50, 1)]

InitSimulation ==
    /\ \E edr \in EdrFiles, token \in NameTokens, counts \in MoleculeCounts,
          model_type \in OfferedModels :
        prof = [pc |-> "simulation",
                sys_data |-> SystemRow(counts),
                sim |-> SimulationOf(edr, token),
                model_type |-> model_type,
                out |-> Skip]
    /\ sle = Idle /\ om = Idle /\ cn = Idle /\ stab = Idle /\ fit = Idle
    /\ pred = Idle
    /\ worker = Idle /\ project = Idle

\* the body of "for f in rdf12_files", for the simulation
ProcessSimulation ==
    /\ prof.pc = "simulation"
    /\ prof' = [prof EXCEPT
                  !.pc = "processed",
                  !.out = process_simulation(prof.sys_data, prof.sim,
                                             StepPrefix, prof.model_type,
                                             SoluteMw, SolventMw)]
    /\ UNCHANGED <<sle, om, cn, stab, fit, pred, worker, project>>

NextSimulation == ProcessSimulation

SpecSimulation == InitSimulation /\ [][NextSimulation]_vars

\* the pass has stored a record for the simulation
Recorded == prof.pc = "processed" /\ prof.out.st = "rec"

\* the energy output gives a temperature: there is one, the label of its
\* axis mentions none of pressure, density, virial, and 10 < value < 10000
EnergyTemperatureValid(edr) ==
    /\ edr.exists /\ edr.temp.some
    /\ edr.label \in {"Temperature (K)", ""}
    /\ FLt(Q(10, 1), edr.temp.v) /\ FLt(edr.temp.v, Q(10000, 1))

\* the name gives a temperature: its 3-digit token lies in [100, 1000]
NameTemperatureValid(name) == name.token >= 100 /\ name.token <= 1000

\* C13: the temperature stored in a record is the mean temperature of the
\* energy output when the label of its axis mentions none of pressure,
\* density, virial and 10 < value < 10000; otherwise the 3-digit token of
\* the simulation's name when it lies in [100, 1000]; otherwise 298.15.
C13_TemperatureFallbackChain ==
    Recorded =>
        prof.out.rec.temperature =
            IF EnergyTemperatureValid(prof.sim.edr) THEN prof.sim.edr.temp.v
            ELSE IF NameTemperatureValid(prof.sim.name)
                 THEN Q(prof.sim.name.token, 1)
            ELSE Q(29815, 100)

\* an energy output whose value 300 is in the window but whose axis is
\* labelled as a pressure: the record holds the 100 of the name
C13_Witness ==
    /\ Recorded
    /\ prof.sim.edr.exists /\ prof.sim.edr.temp = SomeF(Q(300, 1))
    /\ prof.sim.edr.label = "Pressure (bar)"
    /\ prof.sim.name.token = 100
    /\ prof.out.rec.temperature = Q(100, 1)

\* the volume the pass divides the numbers of molecules by: the mean of the
\* energy output when it is neither missing nor zero, otherwise the estimate
\* from the masses
VolumeUsed ==
    IF prof.sim.edr.exists /\ Truthy(prof.sim.edr.vol)
    THEN prof.sim.edr.vol.v
    ELSE FDiv(FAdd(FMul(Q(prof.sys_data.n_solute, 1), SoluteMw),
                   FMul(Q(prof.sys_data.n_solvent, 1), SolventMw)),
              AvogadroScaled)

\* C19: a record is computed only from positive number densities: the
\* numbers of molecules and the volume are positive whenever a record is
\* stored.
C19_DensitiesGuarded ==
    Recorded =>
        /\ prof.sys_data.n_solute > 0 /\ prof.sys_data.n_solvent > 0
        /\ FGt(VolumeUsed, Zero)

(***************************************************************************)
(* SolubilityManager.predict_with_global_optimization                      *)
(***************************************************************************)
\* the R of the local functions get_ln_p_fitted and eval_param_at_T
PredictR == Q(8314, 1000)

\* the number of temperatures of the predicted curve
CurvePoints == 50

\* Python's None, as a component of a returned tuple
None == "None"

PredRet(value) == [st |-> "ret", exc |-> "", value |-> value]

PredRaise(exc) == [st |-> "raise", exc |-> exc, value |-> <<>>]

FAbs(a) == IF FSign(a) < 0 THEN FNeg(a) ELSE a

\* round(T, 1), ties to the even digit
Round1(T) ==
    IF ~IsFin(T) THEN T
    ELSE LET m == (10 * T.n) \div T.d
             rem == (10 * T.n) % T.d
             up == 2 * rem > T.d \/ (2 * rem = T.d /\ m % 2 = 1)
         IN  Q(IF up THEN m + 1 ELSE m, 10)

\* (mutant) the index of the first radius, whatever radius_cut
NearestIndex_first(r, radius_cut) == 1

\* (np.abs(d['r'] - radius_cut)).argmin()
NearestIndex(r, radius_cut) ==
    argmin(Tabulate(LAMBDA i : FAbs(FSub(r[i], radius_cut)), Len(r)),
           1..Len(r))

\* the elements of s without repetition, in the order of their first
\* occurrence: the keys of a dict filled in that order
AppendNew(rest, e) ==
    IF \E i \in 1..Len(rest) : rest[i] = e THEN rest ELSE Append(rest, e)

RECURSIVE Distinct(_, _)
Distinct(s, k) ==
    IF k = 0 THEN <<>>
    ELSE AppendNew(Distinct(s, k - 1), s[k])

\* np.linspace(start, stop, num)
\* (mutant) np.linspace without its end point
linspace_open(start, stop, num) ==
    LET at(i) == FAdd(start, FMul(Q(i - 1, num), FSub(stop, start)))
    IN  Tabulate(at, num)

linspace(start, stop, num) ==
    LET at(i) == FAdd(start, FMul(Q(i - 1, num - 1), FSub(stop, start)))
    IN  Tabulate(at, num)

\* d.update(e)
Update(d, e) == e @@ d

\* (mutant) the zero-valued result of the fit counts as no result
Falsy_zero(d) == DOMAIN d = {} \/ d = ZeroFit

\* "not d" of a dict: it has no key
Falsy(d) == DOMAIN d = {}

\* get_ln_p_fitted from T_calc = 1000.0 / x_val on
ln_p_fitted_at(T_calc, fit_res, method, model) ==
    LET val == FAdd(fit_res.params[1], FDiv(fit_res.params[2], T_calc))
        p_val == FDiv(fit_res.energy, FMul(PredictR, T_calc))
    IN  IF method = "empirical"
        THEN (IF model = "nrtl"
              THEN (IF FGt(val, Zero) THEN Log(val) ELSE Q(-10, 1))
              ELSE val)
        ELSE (IF model = "nrtl"
              THEN (IF FGt(p_val, Zero) THEN Log(p_val) ELSE Q(-10, 1))
              ELSE FDiv(FNeg(fit_res.energy), FMul(PredictR, T_calc)))

\* get_ln_p_fitted(x_val, fit_res, method): a point of the fitted line of
\* the diagnostic plot
get_ln_p_fitted(x_val, fit_res, method, model) ==
    ln_p_fitted_at(FDiv(Q(1000, 1), x_val), fit_res, method, model)

\* eval_param_at_T(fit_res, T_sol, method): the parameter of the model at a
\* temperature of the curve; elo and ehi are the oracle's values of exp
eval_param_at_T(fit_res, T_sol, method, model, elo, ehi) ==
    IF method = "empirical"
    THEN (IF model = "wilson"
          THEN Exp(FAdd(fit_res.params[1], FDiv(fit_res.params[2], T_sol)),
                   elo, ehi, Unk)
          ELSE FAdd(fit_res.params[1], FDiv(fit_res.params[2], T_sol)))
    ELSE (IF model = "wilson"
          THEN Exp(FDiv(FNeg(fit_res.energy), FMul(PredictR, T_sol)),
                   elo, ehi, Unk)
          ELSE FDiv(fit_res.energy, FMul(PredictR, T_sol)))

\* fit_x = np.array([min(x), max(x)]) of the diagnostic plot
FitX(x) ==
    IF Len(x) = 0 THEN <<>>
    ELSE <<x[CHOOSE i \in 1..Len(x) : \A j \in 1..Len(x) : FLe(x[i], x[j])],
           x[CHOOSE i \in 1..Len(x) : \A j \in 1..Len(x) : FGe(x[i], x[j])]>>

\* arrhenius_data, from its x and fit_x
arrhenius_lines(temp_list, p12_list, p21_list, fit12, fit21, model, opt_method, x, fit_x) ==
    [x |-> x,
     y12 |-> Tabulate(LAMBDA i : Log(p12_list[i]), Len(temp_list)),
     y21 |-> Tabulate(LAMBDA i : Log(p21_list[i]), Len(temp_list)),
     labels |-> temp_list, fit_x |-> fit_x,
     fit_y12 |-> Tabulate(LAMBDA i : get_ln_p_fitted(fit_x[i], fit12,
                                                     opt_method, model),
                          Len(fit_x)),
     fit_y21 |-> Tabulate(LAMBDA i : get_ln_p_fitted(fit_x[i], fit21,
                                                     opt_method, model),
                          Len(fit_x))]

\* arrhenius_data, from x = 1000.0 / T of the fitted temperatures
arrhenius_from(temp_list, p12_list, p21_list, fit12, fit21, model, opt_method, x) ==
    arrhenius_lines(temp_list, p12_list, p21_list, fit12, fit21, model,
                    opt_method, x, FitX(x))

\* the dict of the diagnostic plot
arrhenius_data(temp_list, p12_list, p21_list, fit12, fit21, model, opt_method) ==
    arrhenius_from(temp_list, p12_list, p21_list, fit12, fit21, model,
                   opt_method,
                   Tabulate(LAMBDA i : FDiv(Q(1000, 1), temp_list[i]),
                            Len(temp_list)))

\* the parameters the solver gets at a temperature of the curve
solver_params(fit12, fit21, T_sol, opt_method, model, extra_params, elo, ehi) ==
    Update([p12 |-> eval_param_at_T(fit12, T_sol, opt_method, model, elo, ehi),
            p21 |-> eval_param_at_T(fit21, T_sol, opt_method, model, elo, ehi),
            alpha |-> Q(3, 10)],
           extra_params)

\* what the call returns, or raises, once the solver has run at every
\* temperature of the curve; outs[i] is the set of its outcomes at tr[i]
curve_outcome(tr, outs, diagnostic, fit12, fit21) ==
    (IF \A i \in 1..CurvePoints : \E o \in outs[i] : o.st = "ret"
     THEN {PredRet(<<tr,
                     [i \in 1..CurvePoints |->
                         {o.x : o \in {o \in outs[i] : o.st = "ret"}}],
                     diagnostic,
                     [fit12 |-> fit12, fit21 |-> fit21]>>)}
     ELSE {})
    \cup (IF \E i \in 1..CurvePoints : \E o \in outs[i] : o.st = "raise"
          THEN {PredRaise("ZeroDivisionError")}
          ELSE {})

\* the last step of predict_with_global_optimization, from the two fits on:
\* the fitted lines of the diagnostic plot, the temperatures of the curve
\* and the solubility at each of them
predict_curve(temp_list, p12_list, p21_list, fit12, fit21, tr, tm, hfus, model, opt_method, extra_params, elo, ehi, g) ==
    curve_outcome(
        tr,
        Tabulate(LAMBDA i : solve_sle_solubility(
                                tr[i], FALSE, tm, hfus, model,
                                solver_params(fit12, fit21, tr[i], opt_method,
                                              model, extra_params, elo, ehi),
                                elo, ehi, g),
                 CurvePoints),
        arrhenius_data(temp_list, p12_list, p21_list, fit12, fit21, model,
                       opt_method),
        fit12, fit21)

\* a point of valid_points: the record's values at the index idx of its
\* radius nearest to radius_cut
point_at(d, idx) ==
    [T |-> d.temperature, x |-> d.x_solute,
     p12 |-> d.p12.a[idx], p21 |-> d.p21.a[idx]]

\* a row of final_data: the averages over the points kept for a temperature
group_avg(t_val, points_use) ==
    [t_val |-> t_val,
     avg_p12 |-> Mean(Tabulate(LAMBDA i : points_use[i].p12, Len(points_use))),
     avg_p21 |-> Mean(Tabulate(LAMBDA i : points_use[i].p21, Len(points_use)))]

\* (mutant) the filter of lowest x keeps the first point of the group
group_of_first(t_val, points, use_lowest_x_only) ==
    group_avg(t_val, IF use_lowest_x_only THEN <<points[1]>> ELSE points)

\* the points kept of a group: all of them, or the one of lowest x
group_of(t_val, points, use_lowest_x_only) ==
    group_avg(t_val,
              IF use_lowest_x_only
              THEN <<points[argmin(Tabulate(LAMBDA i : points[i].x,
                                            Len(points)),
                                   1..Len(points))]>>
              ELSE points)

\* the two fits and the temperatures of the curve, then predict_curve
predict_fits(temp_list, p12_list, p21_list, fit12, fit21, tr, tm, hfus, model, opt_method, extra_params, elo, ehi, g) ==
    IF fit12.st = "raise" THEN {PredRaise(fit12.exc)}
    ELSE IF fit21.st = "raise" THEN {PredRaise(fit21.exc)}
    ELSE IF Falsy(fit12) \/ Falsy(fit21) THEN {PredRet(<<None, None, None>>)}
    ELSE predict_curve(temp_list, p12_list, p21_list, fit12, fit21, tr,
                       tm, hfus, model, opt_method, extra_params, elo, ehi, g)

\* predict_with_global_optimization from temp_list, p12_list, p21_list on
predict_lists(temp_list, p12_list, p21_list, tm, hfus, model, opt_method, t_range, extra_params, elo, ehi, g) ==
    predict_fits(temp_list, p12_list, p21_list,
                 fit_interaction_energies(temp_list, p12_list, model,
                                          opt_method, NoMask),
                 fit_interaction_energies(temp_list, p21_list, model,
                                          opt_method, NoMask),
                 IF t_range.some
                 THEN linspace(t_range.v[1], t_range.v[2], CurvePoints)
                 ELSE linspace(FMul(tm, Q(7, 10)), FMul(tm, Q(99, 100)),
                               CurvePoints),
                 tm, hfus, model, opt_method, extra_params, elo, ehi, g)

\* predict_with_global_optimization from the rows kept of final_data on
predict_kept(kept, tm, hfus, model, opt_method, t_range, extra_params, elo, ehi, g) ==
    IF \E i \in 1..Len(kept) : PyDivRaises(kept[i].t_val)
    THEN {PredRaise("ZeroDivisionError")}
    ELSE predict_lists(Tabulate(LAMBDA i : kept[i].t_val, Len(kept)),
                       Tabulate(LAMBDA i : kept[i].avg_p12, Len(kept)),
                       Tabulate(LAMBDA i : kept[i].avg_p21, Len(kept)),
                       tm, hfus, model, opt_method, t_range, extra_params,
                       elo, ehi, g)

\* the keys of grouped_T: round(p['T'], 1) of the points, in the order of
\* their first occurrence
grouped_keys(valid_points) ==
    Distinct(Tabulate(LAMBDA i : Round1(valid_points[i].T), Len(valid_points)),
             Len(valid_points))

\* t_val, avg_p12 and avg_p21 of the passes of the loop over grouped_T
grouped_rows(valid_points, keys, use_lowest_x_only) ==
    Tabulate(LAMBDA k : group_of(keys[k],
                                 SelectSeq(valid_points,
                                           LAMBDA p : Round1(p.T) = keys[k]),
                                 use_lowest_x_only),
             Len(keys))

\* predict_with_global_optimization from the keys of t_groups on
predict_groups(valid_points, keys, tm, hfus, model, use_lowest_x_only, opt_method, t_range, extra_params, elo, ehi, g) ==
    predict_kept(
        SelectSeq(grouped_rows(valid_points, keys, use_lowest_x_only),
                  LAMBDA q : FGt(q.avg_p12, Zero) /\ FGt(q.avg_p21, Zero)),
        tm, hfus, model, opt_method, t_range, extra_params, elo, ehi, g)

\* predict_with_global_optimization from valid_points on
predict_points(valid_points, tm, hfus, model, use_lowest_x_only, opt_method, t_range, extra_params, elo, ehi, g) ==
    predict_groups(valid_points, grouped_keys(valid_points),
                   tm, hfus, model, use_lowest_x_only, opt_method, t_range,
                   extra_params, elo, ehi, g)

\* valid_points, from the records with radii
extracted_points(used, radius_cut) ==
    Tabulate(LAMBDA i : point_at(used[i], NearestIndex(used[i].r, radius_cut)),
             Len(used))

\* predict_with_global_optimization from the records with radii on
predict_used(used, radius_cut, tm, hfus, model, use_lowest_x_only, opt_method, t_range, extra_params, elo, ehi, g) ==
    IF \E i \in 1..Len(used) : ~used[i].p12.some \/ ~used[i].p21.some
    THEN {PredRaise("TypeError")}
    ELSE IF Len(used) = 0 THEN {PredRet(<<None, None, None>>)}
    ELSE predict_points(
             extracted_points(used, radius_cut),
             tm, hfus, model, use_lowest_x_only, opt_method, t_range,
             extra_params, elo, ehi, g)

\* predict_with_global_optimization(calculated_data, radius_cut, tm, hfus,
\* model, use_lowest_x_only, opt_method, t_range, extra_params): the set of
\* its outcomes.  calculated_data is the sequence of the dict's values; a
\* component of x_curve is the set of the values the solver may return.
predict_with_global_optimization(calculated_data, radius_cut, tm, hfus, model, use_lowest_x_only, opt_method, t_range, extra_params, elo, ehi, g) ==
    predict_used(SelectSeq(calculated_data, LAMBDA d : Len(d.r) # 0),
                 radius_cut, tm, hfus, model, use_lowest_x_only, opt_method,
                 t_range, extra_params, elo, ehi, g)

\* --- the arguments of a call ---
MaxRecords == 2

NoRange == [some |-> FALSE, v |-> <<>>]

Range(t_min, t_max) == [some |-> TRUE, v |-> <<t_min, t_max>>]

\* a record of calculated_data
Record(r, p12, p21, x_solute, temperature) ==
    [r |-> r, p12 |-> p12, p21 |-> p21, x_solute |-> x_solute,
     temperature |-> temperature]

\* records: without radii; two at 100 K (one named 100.04 K); one at
\* 200 K; one of a model without parameters; one with a parameter <= 0
RecordKinds ==
    {Record(<<>>, SomeArr(<<>>), SomeArr(<<>>), Q(1, 10), Q(100, 1)),
     Record(Radii2, SomeArr(<<Zero, One>>), SomeArr(<<One, One>>),
            Q(1, 5), Q(100, 1)),
     Record(Radii2, SomeArr(<<One, One>>), SomeArr(<<One, One>>),
            Q(1, 10), Q(10004, 100)),
     Record(Radii2, SomeArr(<<One, One>>), SomeArr(<<Zero, One>>),
            Q(1, 10), Q(200, 1)),
     Record(Radii2, NoneArr, NoneArr, Q(1, 10), Q(100, 1))}

RadiusCuts == {Q(1, 2), Q(3, 2)}

\* <<tm, t_range>>: the default range below a melting point of 0 K, where
\* every temperature of the curve is molten, and a range across a melting
\* point of 300 K
PredCurves == {<<Zero, NoRange>>,
               <<Q(300, 1), Range(Q(295, 1), Q(344, 1))>>}

PredOracles == {[a |-> Q(1, 2), b |-> Q(2, 1), c |-> Q(1, 2)],
                [a |-> Q(1, 2), b |-> Q(1, 2), c |-> Q(1, 2)]}

InitPredict ==
    /\ \E n \in 0..MaxRecords :
        \E calculated_data \in [1..n -> RecordKinds],
           radius_cut \in RadiusCuts, model \in OfferedModels,
           use_lowest_x_only \in BOOLEAN, opt_method \in FitMethods,
           curve \in PredCurves, g \in PredOracles :
            pred = [pc |-> "call", calculated_data |-> calculated_data,
                    radius_cut |-> radius_cut, tm |-> curve[1],
                    hfus |-> Zero, model |-> model,
                    use_lowest_x_only |-> use_lowest_x_only,
                    opt_method |-> opt_method, t_range |-> curve[2],
                    extra_params |-> [k \in {} |-> Zero],
                    elo |-> Q(1, 2), ehi |-> Q(2, 1), g |-> g,
                    out |-> PredRaise("none"), caller |-> "waiting"]
    /\ sle = Idle /\ om = Idle /\ cn = Idle /\ stab = Idle /\ fit = Idle
    /\ prof = Idle
    /\ worker = Idle /\ project = Idle

CallPredict ==
    /\ pred.pc = "call"
    /\ \E o \in predict_with_global_optimization(
                    pred.calculated_data, pred.radius_cut, pred.tm, pred.hfus,
                    pred.model, pred.use_lowest_x_only, pred.opt_method,
                    pred.t_range, pred.extra_params, pred.elo, pred.ehi,
                    pred.g) :
          pred' = [pred EXCEPT !.pc = "done", !.out = o]
    /\ UNCHANGED <<sle, om, cn, stab, fit, prof, worker, project>>

\* SolubilityTab.run_prediction: "tr, xp, arr_data, fit_res = ..." and what
\* follows it; unpacking a tuple of another length raises ValueError
Unpack ==
    /\ pred.pc = "done"
    /\ pred.out.st = "ret"
    /\ pred' = [pred EXCEPT
                  !.pc = "unpacked",
                  !.caller = IF Len(pred.out.value) # 4 THEN "ValueError"
                             ELSE IF pred.out.value[1] = None THEN "warned"
                             ELSE "plotted"]
    /\ UNCHANGED <<sle, om, cn, stab, fit, prof, worker, project>>

NextPredict == CallPredict \/ Unpack

SpecPredict == InitPredict /\ [][NextPredict]_vars

PredDone == pred.pc \in {"done", "unpacked"}

\* C9: predict_with_global_optimization returns the four components
\* (T_curve, x_curve, diagnostic_data, fit_results) on every return path,
\* the paths without data included, so that a caller unpacking four values
\* never fails.
C9_FourComponents ==
    (PredDone /\ pred.out.st = "ret") =>
        /\ Len(pred.out.value) = 4
        /\ pred.caller # "ValueError"

(***************************************************************************)
(* The truncation of the arrays of a simulation                            *)
(***************************************************************************)
\* the greatest number of rows of an RDF file
TruncLen == 3

\* the radii of a file of n rows: 0.5, 1, 2, 4, ...
RadiiOf(n) == [i \in 1..n |-> Q(2 ^ (i - 1), 2)]

\* the g(r) of a file of n rows: first, then everywhere else
ColumnOf(n, first, rest) == [i \in 1..n |-> IF i = 1 THEN first ELSE rest]

\* a simulation of the requested step whose RDF files have n11, n22 and
\* n12 rows (of the same g(r), which keeps the ratios of the integrals
\* within the range of the integers)
SimulationOfRows(edr, n11, n22, n12) ==
    [name |-> SimName(StepPrefix, 300),
     f11 |-> DataFile(RadiiOf(n11), ColumnOf(n11, One, Q(2, 1))),
     f22 |-> DataFile(RadiiOf(n22), ColumnOf(n22, One, Q(2, 1))),
     f12 |-> DataFile(RadiiOf(n12), ColumnOf(n12, One, Q(2, 1))),
     edr |-> edr]

\* the energy file: missing, or with a volume and a temperature
TruncEdrs ==
    {NoEdr, Edr(SomeF(Q(10, 1)), SomeF(Q(300, 1)), "Temperature (K)")}

InitTruncate ==
    /\ \E n11 \in 1..TruncLen, n22 \in 1..TruncLen, n12 \in 1..TruncLen,
          edr \in TruncEdrs, model_type \in OfferedModels :
        prof = [pc |-> "simulation",
                sys_data |-> SystemRow(<<10, 100>>),
                sim |-> SimulationOfRows(edr, n11, n22, n12),
                model_type |-> model_type,
                out |-> Skip]
    /\ sle = Idle /\ om = Idle /\ cn = Idle /\ stab = Idle /\ fit = Idle
    /\ pred = Idle
    /\ worker = Idle /\ project = Idle

SpecTruncate == InitTruncate /\ [][NextSimulation]_vars

\* the numbers of rows of r and of the three RDF arrays read
RowCounts ==
    {Len(prof.sim.f11.x), Len(prof.sim.f11.ys[1]),
     Len(prof.sim.f22.ys[1]), Len(prof.sim.f12.ys[1])}

\* the shortest of them
ShortestRows == CHOOSE m \in RowCounts : \A n \in RowCounts : m <= n

\* C22: when the r axis and the three RDF arrays read for a simulation
\* differ in length, all are truncated to the shortest common length before
\* integrating: the record stored holds r, omega12 and omega21 of the same
\* length, the minimum of the lengths read.
C22_TruncatedToShortest ==
    (prof.pc = "processed") =>
        /\ prof.out.st = "rec"
        /\ Len(prof.out.rec.r) = ShortestRows
        /\ Len(prof.out.rec.omega12) = ShortestRows
        /\ Len(prof.out.rec.omega21) = ShortestRows
        /\ \A i \in 1..ShortestRows : prof.out.rec.r[i] = prof.sim.f11.x[i]

\* a record stored for a simulation whose three files all differ in
\* length, the file of r being the longest
C22_Witness ==
    /\ Recorded
    /\ Cardinality(RowCounts) = 3
    /\ Len(prof.sim.f11.x) > Len(prof.sim.f22.ys[1])
    /\ Len(prof.sim.f11.x) > Len(prof.sim.f12.ys[1])
    /\ Len(prof.out.rec.r) < Len(prof.sim.f11.x)

(***************************************************************************)
(* The temperatures of the predicted curve                                 *)
(***************************************************************************)
\* <<tm, t_range>>: the default range (of a direct call) below a melting
\* point of 0 K and of 4900 K, and the values of the two spin boxes of the
\* range, which may be set in either order or to the same temperature
CurveCases ==
    {<<Zero, NoRange>>, <<Q(4900, 1), NoRange>>,
     <<Q(300, 1), Range(Q(295, 1), Q(344, 1))>>,
     <<Q(300, 1), Range(Q(449, 1), Q(400, 1))>>,
     <<Q(300, 1), Range(Q(400, 1), Q(400, 1))>>}

\* calculated_data: records with positive parameters, at one temperature
\* or at two
CurveData ==
    {<<Record(Radii2, SomeArr(<<One, One>>), SomeArr(<<One, One>>),
              Q(1, 10), Q(100, 1))>>,
     <<Record(Radii2, SomeArr(<<One, One>>), SomeArr(<<One, One>>),
              Q(1, 10), Q(100, 1)),
       Record(Radii2, SomeArr(<<One, Q(2, 1)>>), SomeArr(<<One, One>>),
              Q(1, 5), Q(200, 1))>>}

\* the calls drawn: every case with every model, but for the NRTL curve
\* below 4900 K, whose exact rationals leave the range of the integers
InitCurve ==
    /\ \E calculated_data \in CurveData, curve \in CurveCases,
          model \in OfferedModels, opt_method \in FitMethods :
        /\ model = "nrtl" => curve[1] # Q(4900, 1)
        /\ pred = [pc |-> "call", calculated_data |-> calculated_data,
                radius_cut |-> Q(3, 2), tm |-> curve[1],
                hfus |-> Zero, model |-> model,
                use_lowest_x_only |-> FALSE,
                opt_method |-> opt_method, t_range |-> curve[2],
                extra_params |-> [k \in {} |-> Zero],
                elo |-> Q(1, 2), ehi |-> Q(2, 1),
                g |-> [a |-> Q(1, 2), b |-> Q(2, 1), c |-> Q(1, 2)],
                out |-> PredRaise("none"), caller |-> "waiting"]
    /\ sle = Idle /\ om = Idle /\ cn = Idle /\ stab = Idle /\ fit = Idle
    /\ prof = Idle
    /\ worker = Idle /\ project = Idle

SpecCurve == InitCurve /\ [][NextPredict]_vars

\* the call returned a curve: four components, the first of them an array
ReturnedCurve ==
    PredDone /\ pred.out.st = "ret" /\ Len(pred.out.value) = 4

\* C14 (as stated): whenever predict_with_global_optimization returns a
\* curve, T_curve is in ascending order and x_curve has one value per
\* element of T_curve, for a range given by the caller and for the default
\* range.
C14_AscendingParallelCurve ==
    ReturnedCurve =>
        /\ \A i \in 1..(Len(pred.out.value[1]) - 1) :
              FLe(pred.out.value[1][i], pred.out.value[1][i + 1])
        /\ Len(pred.out.value[2]) = Len(pred.out.value[1])

\* the first and the last temperature asked for: the range of the caller,
\* or by default 0.7 tm and 0.99 tm
CurveStart ==
    IF pred.t_range.some THEN pred.t_range.v[1] ELSE FMul(pred.tm, Q(7, 10))

CurveStop ==
    IF pred.t_range.some THEN pred.t_range.v[2]
    ELSE FMul(pred.tm, Q(99, 100))

\* C14 (amended): whenever predict_with_global_optimization returns a curve,
\* T_curve runs from the first to the second temperature of the range (by
\* default from 0.7 tm to 0.99 tm), strictly ascending when the first is
\* below the second, strictly descending when it is above, and x_curve has
\* one value per element of T_curve.
C14_MonotoneParallelCurve ==
    ReturnedCurve =>
        /\ Len(pred.out.value[2]) = Len(pred.out.value[1])
        /\ pred.out.value[1][1] = CurveStart
        /\ pred.out.value[1][Len(pred.out.value[1])] = CurveStop
        /\ \A i \in 1..(Len(pred.out.value[1]) - 1) :
              /\ FLt(CurveStart, CurveStop) =>
                    FLt(pred.out.value[1][i], pred.out.value[1][i + 1])
              /\ FGt(CurveStart, CurveStop) =>
                    FGt(pred.out.value[1][i], pred.out.value[1][i + 1])
              /\ CurveStart = CurveStop =>
                    pred.out.value[1][i] = pred.out.value[1][i + 1]

\* a curve returned for a range given with t_min above t_max: it descends
C14_Witness ==
    /\ ReturnedCurve
    /\ pred.t_range.some /\ FGt(pred.t_range.v[1], pred.t_range.v[2])
    /\ Len(pred.out.value[1]) = CurvePoints
    /\ Len(pred.out.value[2]) = CurvePoints
    /\ FGt(pred.out.value[1][1], pred.out.value[1][2])

\* the fitted law of a parameter, evaluated where it was observed: the
\* call fitted one record only, so the law passes through its point
RefittedAt(fit_res, d) ==
    eval_param_at_T(fit_res, d.temperature, pred.opt_method, pred.model,
                    pred.elo, pred.ehi)

\* what fit_interaction_energies fits of an observed parameter: the
\* parameter itself for NRTL, its clamped logarithm for any other name
FittedOn(model_type, P) ==
    IF model_type = "nrtl" THEN P ELSE Log(FMax(P, ClampEps))

\* the inverse of the transform of FittedOn
InverseOfFitted(model_type, y, elo, ehi) ==
    IF model_type = "nrtl" THEN y ELSE Exp(y, elo, ehi, Unk)

\* the theoretical law is fitted with the gas constant of the optimizer and
\* evaluated with the one written in predict_with_global_optimization
LawScale(opt_method) ==
    IF opt_method = "theoretical" THEN FDiv(OptimizerR, PredictR) ELSE One

\* the parameter the record observed at the radius of the prediction
ObservedAt(p, d) == p.a[NearestIndex(d.r, pred.radius_cut)]

\* the value the inverse transform gives the law fitted to one observation,
\* at the temperature of the observation
InvertedAt(p, d) ==
    InverseOfFitted(pred.model,
                    FMul(LawScale(pred.opt_method),
                         FittedOn(pred.model, ObservedAt(p, d))),
                    pred.elo, pred.ehi)

\* C18: for every model name and both methods, evaluating the fitted law
\* applies the inverse of the transform under which fit_interaction_energies
\* fitted the observed parameters (exp for a law fitted on ln(parameter),
\* the identity for a law fitted on the parameter): the law fitted to one
\* observation gives, at the temperature of the observation, the inverse
\* transform of the value fitted there.
C18_EvaluationInvertsFit ==
    (ReturnedCurve /\ Len(pred.calculated_data) = 1) =>
        /\ RefittedAt(pred.out.value[4].fit12, pred.calculated_data[1])
             = InvertedAt(pred.calculated_data[1].p12, pred.calculated_data[1])
        /\ RefittedAt(pred.out.value[4].fit21, pred.calculated_data[1])
             = InvertedAt(pred.calculated_data[1].p21, pred.calculated_data[1])

\* C25: under the theoretical method the fit and the evaluation use the
\* same gas constant: the law fitted to a single point (T, P) with P > 0
\* gives back P when it is evaluated at T (NRTL: energy / (R T); Wilson:
\* exp(-energy / (R T))).
C25_SameGasConstant ==
    (/\ ReturnedCurve
     /\ Len(pred.calculated_data) = 1
     /\ pred.opt_method = "theoretical"
     /\ pred.model \in {"nrtl", "wilson"}) =>
        /\ RefittedAt(pred.out.value[4].fit12, pred.calculated_data[1])
             = ObservedAt(pred.calculated_data[1].p12, pred.calculated_data[1])
        /\ RefittedAt(pred.out.value[4].fit21, pred.calculated_data[1])
             = ObservedAt(pred.calculated_data[1].p21, pred.calculated_data[1])

(***************************************************************************)
(* The groups of temperature of the prediction                             *)
(***************************************************************************)
\* the number of records of a call
GroupLen == 3

\* records with parameters at the cutoff radius: at 100 K of two solute
\* fractions, at 100.04 K (in the group of 100.0 K) of a lower one, and at
\* 100.4 K (a group of its own)
GroupRecords ==
    {Record(Radii2, SomeArr(<<Zero, One>>), SomeArr(<<Zero, Q(2, 1)>>),
            Q(1, 5), Q(100, 1)),
     Record(Radii2, SomeArr(<<Zero, Q(2, 1)>>), SomeArr(<<Zero, Q(2, 1)>>),
            Q(1, 5), Q(100, 1)),
     Record(Radii2, SomeArr(<<Zero, Q(2, 1)>>), SomeArr(<<Zero, One>>),
            Q(1, 10), Q(10004, 100)),
     Record(Radii2, SomeArr(<<Zero, Q(2, 1)>>), SomeArr(<<Zero, Q(-1, 1)>>),
            Q(1, 10), Q(1004, 10))}

\* the calls drawn: every model and method, but for the means of the
\* models fitted on a logarithm, whose clamp compares exact rationals
\* beyond the range of the integers
InitGroups ==
    /\ \E calculated_data \in [1..GroupLen -> GroupRecords],
          use_lowest_x_only \in BOOLEAN, model \in OfferedModels,
          opt_method \in FitMethods :
        /\ model # "nrtl" => use_lowest_x_only
        /\ pred = [pc |-> "groups", calculated_data |-> calculated_data,
                radius_cut |-> Q(3, 2), tm |-> Zero,
                hfus |-> Zero, model |-> model,
                use_lowest_x_only |-> use_lowest_x_only,
                opt_method |-> opt_method, t_range |-> NoRange,
                extra_params |-> [k \in {} |-> Zero],
                elo |-> Q(1, 2), ehi |-> Q(2, 1),
                g |-> [a |-> Q(1, 2), b |-> Q(2, 1), c |-> Q(1, 2)],
                rows |-> <<>>, out |-> PredRaise("none"),
                caller |-> "waiting"]
    /\ sle = Idle /\ om = Idle /\ cn = Idle /\ stab = Idle /\ fit = Idle
    /\ prof = Idle
    /\ worker = Idle /\ project = Idle

\* valid_points of the call: every record drawn has radii and parameters
GroupPoints ==
    Tabulate(LAMBDA i : point_at(pred.calculated_data[i],
                                 NearestIndex(pred.calculated_data[i].r,
                                              pred.radius_cut)),
             Len(pred.calculated_data))

\* the call, keeping what each pass of the loop over grouped_T computed
CallGrouped ==
    /\ pred.pc = "groups"
    /\ \E o \in predict_with_global_optimization(
                    pred.calculated_data, pred.radius_cut, pred.tm, pred.hfus,
                    pred.model, pred.use_lowest_x_only, pred.opt_method,
                    pred.t_range, pred.extra_params, pred.elo, pred.ehi,
                    pred.g) :
          pred' = [pred EXCEPT
                     !.pc = "grouped", !.out = o,
                     !.rows = grouped_rows(GroupPoints,
                                           grouped_keys(GroupPoints),
                                           pred.use_lowest_x_only)]
    /\ UNCHANGED <<sle, om, cn, stab, fit, prof, worker, project>>

NextGroups == CallGrouped

SpecGroups == InitGroups /\ [][NextGroups]_vars

Grouped == pred.pc = "grouped"

\* t is T rounded to one decimal: a multiple of 0.1 at most 0.05 from T
IsRounded1(T, t) ==
    /\ IsFin(t) /\ 10 % t.d = 0
    /\ FLe(FAbs(FSub(T, t)), Q(1, 20))

\* the positions, in valid_points, of the points of the group of t_val
GroupAt(t_val) ==
    {j \in 1..Len(GroupPoints) : IsRounded1(GroupPoints[j].T, t_val)}

\* the arithmetic mean of F over the positions of G
MeanOver(F(_), G) ==
    LET members == SelectSeq(Tabulate(LAMBDA j : j, Len(GroupPoints)),
                             LAMBDA j : j \in G)
    IN  FDiv(SumOf(LAMBDA m : F(members[m]), Len(members)),
             Q(Cardinality(G), 1))

\* C20: the points are grouped by their temperature rounded to one decimal
\* (every point belongs to the group of exactly one pass of the loop); with
\* use_lowest_x_only a group contributes p12 and p21 of one of its points,
\* whose solute fraction is the least of the group, and otherwise the
\* arithmetic means of p12 and of p21 over all the points of the group.
C20_GroupContributions ==
    Grouped =>
        /\ \A j \in 1..Len(GroupPoints) :
               Cardinality({i \in 1..Len(pred.rows) :
                               IsRounded1(GroupPoints[j].T,
                                          pred.rows[i].t_val)}) = 1
        /\ \A i \in 1..Len(pred.rows) :
               /\ GroupAt(pred.rows[i].t_val) # {}
               /\ IF pred.use_lowest_x_only
                  THEN \E j \in GroupAt(pred.rows[i].t_val) :
                          /\ \A k \in GroupAt(pred.rows[i].t_val) :
                                 FLe(GroupPoints[j].x, GroupPoints[k].x)
                          /\ pred.rows[i].avg_p12 = GroupPoints[j].p12
                          /\ pred.rows[i].avg_p21 = GroupPoints[j].p21
                  ELSE /\ pred.rows[i].avg_p12
                            = MeanOver(LAMBDA j : GroupPoints[j].p12,
                                       GroupAt(pred.rows[i].t_val))
                       /\ pred.rows[i].avg_p21
                            = MeanOver(LAMBDA j : GroupPoints[j].p21,
                                       GroupAt(pred.rows[i].t_val))

\* a call with the filter of lowest x returned, in which a point follows,
\* in the group of the same rounded temperature, a point of another
\* temperature, of a greater solute fraction and of other parameters
C20_Witness ==
    /\ Grouped /\ pred.use_lowest_x_only /\ pred.out.st = "ret"
    /\ \E i \in 1..Len(pred.rows) :
          \E j, k \in GroupAt(pred.rows[i].t_val) :
              /\ j < k
              /\ GroupPoints[j].T # GroupPoints[k].T
              /\ FLt(GroupPoints[k].x, GroupPoints[j].x)
              /\ GroupPoints[k].p12 # GroupPoints[j].p12
              /\ pred.rows[i].avg_p12 = GroupPoints[k].p12

(***************************************************************************)
(* The points extracted at the cutoff radius                               *)
(***************************************************************************)
\* the number of records of a call
ExtractLen == 2

\* records of three radii, of two radii and without radii, whose
\* parameters differ from one radius to the next
ExtractRecords ==
    {Record(Radii3, SomeArr(<<One, Q(2, 1), Q(1, 2)>>),
            SomeArr(<<Q(2, 1), Q(1, 2), One>>), Q(1, 10), Q(100, 1)),
     Record(Radii2, SomeArr(<<Q(2, 1), One>>), SomeArr(<<One, Q(2, 1)>>),
            Q(1, 5), Q(200, 1)),
     Record(<<>>, SomeArr(<<>>), SomeArr(<<>>), Q(1, 10), Q(100, 1))}

\* radius_cut: below, between (also half way), on and above the radii
ExtractCuts == {Zero, Q(3, 4), One, Q(5, 4), Q(3, 2), Q(5, 1)}

InitExtract ==
    /\ \E calculated_data \in [1..ExtractLen -> ExtractRecords],
          radius_cut \in ExtractCuts, model \in OfferedModels,
          opt_method \in FitMethods :
        pred = [pc |-> "extract", calculated_data |-> calculated_data,
                radius_cut |-> radius_cut, tm |-> Zero,
                hfus |-> Zero, model |-> model,
                use_lowest_x_only |-> FALSE,
                opt_method |-> opt_method, t_range |-> NoRange,
                extra_params |-> [k \in {} |-> Zero],
                elo |-> Q(1, 2), ehi |-> Q(2, 1),
                g |-> [a |-> Q(1, 2), b |-> Q(2, 1), c |-> Q(1, 2)],
                points |-> <<>>, out |-> PredRaise("none"),
                caller |-> "waiting"]
    /\ sle = Idle /\ om = Idle /\ cn = Idle /\ stab = Idle /\ fit = Idle
    /\ prof = Idle
    /\ worker = Idle /\ project = Idle

\* the records the loop does not skip
WithRadii(calculated_data) == SelectSeq(calculated_data, LAMBDA d : Len(d.r) # 0)

\* the call, keeping valid_points
CallExtract ==
    /\ pred.pc = "extract"
    /\ \E o \in predict_with_global_optimization(
                    pred.calculated_data, pred.radius_cut, pred.tm, pred.hfus,
                    pred.model, pred.use_lowest_x_only, pred.opt_method,
                    pred.t_range, pred.extra_params, pred.elo, pred.ehi,
                    pred.g) :
          pred' = [pred EXCEPT
                     !.pc = "extracted", !.out = o,
                     !.points = extracted_points(
                                    WithRadii(pred.calculated_data),
                                    pred.radius_cut)]
    /\ UNCHANGED <<sle, om, cn, stab, fit, prof, worker, project>>

NextExtract == CallExtract

SpecExtract == InitExtract /\ [][NextExtract]_vars

Extracted == pred.pc = "extracted"

\* the distance of the radius at index i of the record d to radius_cut
CutDistance(d, i) == FAbs(FSub(d.r[i], pred.radius_cut))

\* the indices of d at which the distance to radius_cut is the least
NearestIndices(d) ==
    {i \in 1..Len(d.r) :
        \A j \in 1..Len(d.r) : FLe(CutDistance(d, i), CutDistance(d, j))}

\* C21: for every profile with a non-empty r, the point extracted is taken
\* at an index where |r[i] - radius_cut| is minimal over the whole of r,
\* and p12 and p21 are both read at that index.
C21_NearestPoint ==
    Extracted =>
        /\ Len(pred.points) = Len(WithRadii(pred.calculated_data))
        /\ \A k \in 1..Len(pred.points) :
               \E i \in NearestIndices(WithRadii(pred.calculated_data)[k]) :
                   /\ pred.points[k].p12
                        = WithRadii(pred.calculated_data)[k].p12.a[i]
                   /\ pred.points[k].p21
                        = WithRadii(pred.calculated_data)[k].p21.a[i]
                   /\ pred.points[k].T
                        = WithRadii(pred.calculated_data)[k].temperature
                   /\ pred.points[k].x
                        = WithRadii(pred.calculated_data)[k].x_solute

\* a call returned whose first record has three radii and whose radius_cut
\* lies between them, nearest to the second
C21_Witness ==
    /\ Extracted /\ pred.out.st = "ret"
    /\ Len(pred.points) >= 1
    /\ Len(pred.calculated_data[1].r) = 3
    /\ NearestIndices(pred.calculated_data[1]) = {2}
    /\ pred.radius_cut # pred.calculated_data[1].r[2]
    /\ pred.points[1].p12 = pred.calculated_data[1].p12.a[2]
    /\ pred.points[1].p12 # pred.calculated_data[1].p12.a[1]

(***************************************************************************)
(* The prediction without regression points                                *)
(***************************************************************************)
\* the number of records of a call
FilterLen == 2

\* records: without radii; with parameters that are 0 and negative at the
\* second radius; with positive parameters
FilterRecords ==
    {Record(<<>>, SomeArr(<<>>), SomeArr(<<>>), Q(1, 10), Q(100, 1)),
     Record(Radii2, SomeArr(<<One, Zero>>), SomeArr(<<One, Q(-1, 1)>>),
            Q(1, 5), Q(200, 1)),
     Record(Radii2, SomeArr(<<One, One>>), SomeArr(<<One, One>>),
            Q(1, 10), Q(100, 1))}

InitFilter ==
    /\ \E calculated_data \in [1..FilterLen -> FilterRecords],
          radius_cut \in RadiusCuts, model \in OfferedModels,
          opt_method \in FitMethods, curve \in PredCurves :
        pred = [pc |-> "call", calculated_data |-> calculated_data,
                radius_cut |-> radius_cut, tm |-> curve[1],
                hfus |-> Zero, model |-> model,
                use_lowest_x_only |-> FALSE,
                opt_method |-> opt_method, t_range |-> curve[2],
                extra_params |-> [k \in {} |-> Zero],
                elo |-> Q(1, 2), ehi |-> Q(2, 1),
                g |-> [a |-> Q(1, 2), b |-> Q(2, 1), c |-> Q(1, 2)],
                out |-> PredRaise("none"), caller |-> "waiting"]
    /\ sle = Idle /\ om = Idle /\ cn = Idle /\ stab = Idle /\ fit = Idle
    /\ prof = Idle
    /\ worker = Idle /\ project = Idle

SpecFilter == InitFilter /\ [][NextPredict]_vars

\* the no-result signal
NoResult == PredRet(<<None, None, None>>)

\* the passes of the loop over grouped_T of the call
FilterRows ==
    grouped_rows(extracted_points(WithRadii(pred.calculated_data),
                                  pred.radius_cut),
                 grouped_keys(extracted_points(WithRadii(pred.calculated_data),
                                               pred.radius_cut)),
                 pred.use_lowest_x_only)

\* some profile has radii, and the positivity filter rejects every group
AllRejected ==
    /\ Len(WithRadii(pred.calculated_data)) > 0
    /\ \A i \in 1..Len(FilterRows) :
          ~(FGt(FilterRows[i].avg_p12, Zero) /\ FGt(FilterRows[i].avg_p21, Zero))

\* C24: predict_with_global_optimization returns the no-result signal if
\* and only if no profile has a non-empty r; when the positivity filter
\* rejects every temperature group it neither raises nor returns the
\* no-result signal, but returns a whole curve evaluated from the
\* zero-valued result of the fit.
C24_NoResultOnlyWithoutRadii ==
    PredDone =>
        /\ (pred.out = NoResult) <=> (Len(WithRadii(pred.calculated_data)) = 0)
        /\ AllRejected =>
              /\ pred.out.st = "ret"
              /\ Len(pred.out.value) = 4
              /\ Len(pred.out.value[1]) = CurvePoints
              /\ Len(pred.out.value[2]) = CurvePoints
              /\ pred.out.value[4].fit12 = ZeroFit
              /\ pred.out.value[4].fit21 = ZeroFit

\* a call on two profiles with radii whose groups were all rejected has
\* returned
C24_Witness ==
    /\ PredDone
    /\ Len(WithRadii(pred.calculated_data)) = 2
    /\ AllRejected
    /\ pred.out.st = "ret"

(***************************************************************************)
(* SolubilityManager.analyze_cutoff_stability                              *)
(***************************************************************************)
\* r_axis and curves after the loop has seen the first k profiles
RECURSIVE cutoff_loop(_, _)
cutoff_loop(calculated_data, k) ==
    IF k = 0 THEN [some |-> FALSE, r_axis |-> <<>>, curves |-> <<>>]
    ELSE LET before == cutoff_loop(calculated_data, k - 1)
             d == calculated_data[k]
             axis == IF before.some THEN before.r_axis ELSE d.r
             min_l == Min2(Len(axis), Len(d.p12.a))
         IN  IF Len(d.r) = 0 THEN before
             ELSE [some |-> TRUE,
                   r_axis |-> Prefix(axis, min_l),
                   curves |-> Append(before.curves, Prefix(d.p12.a, min_l))]

\* what the loop leaves, handed to analyze_stability_region; numpy raises
\* ValueError on a curve that has not the length of r_axis
cutoff_call(args) ==
    IF Len(args.curves) = 0 THEN [st |-> "none"]
    ELSE IF \E i \in 1..Len(args.curves) :
                Len(args.curves[i]) # Len(args.r_axis)
    THEN [st |-> "raise", exc |-> "ValueError"]
    ELSE analyze_stability_region(args.r_axis, args.curves, WindowWidth)

\* analyze_cutoff_stability(calculated_data)
analyze_cutoff_stability(calculated_data) ==
    cutoff_call(cutoff_loop(calculated_data, Len(calculated_data)))

\* the number of profiles of a call
CutLen == 2

\* the profiles: without radii, of two radii and of three, p12 having one
\* value per radius
CutProfiles ==
    {Record(r, SomeArr(p12), SomeArr(p12), Q(1, 10), Q(300, 1)) :
        r \in {<<>>}, p12 \in {<<>>}}
    \cup {Record(Radii2, SomeArr(p12), SomeArr(p12), Q(1, 10), Q(300, 1)) :
             p12 \in [1..2 -> CurveVals]}
    \cup {Record(Radii3, SomeArr(p12), SomeArr(p12), Q(1, 10), Q(300, 1)) :
             p12 \in [1..3 -> CurveVals]}

InitCutoff ==
    /\ \E n \in 0..CutLen :
        \E calculated_data \in [1..n -> CutProfiles] :
            stab = [pc |-> "cutoff", calculated_data |-> calculated_data,
                    args |-> cutoff_loop(<<>>, 0), out |-> [st |-> "none"]]
    /\ sle = Idle /\ om = Idle /\ cn = Idle /\ fit = Idle
    /\ prof = Idle /\ pred = Idle
    /\ worker = Idle /\ project = Idle

\* the call, keeping the arguments it hands to analyze_stability_region
CallCutoff ==
    /\ stab.pc = "cutoff"
    /\ stab' = [stab EXCEPT
                  !.pc = "analyzed",
                  !.args = cutoff_loop(stab.calculated_data,
                                       Len(stab.calculated_data)),
                  !.out = analyze_cutoff_stability(stab.calculated_data)]
    /\ UNCHANGED <<sle, om, cn, fit, prof, pred, worker, project>>

NextCutoff == CallCutoff

SpecCutoff == InitCutoff /\ [][NextCutoff]_vars

\* C26: whatever the lengths of r and p12 of the profiles, and in whatever
\* order, analyze_cutoff_stability hands to analyze_stability_region an
\* r_axis and curves that all have the same length.
C26_EqualLengths ==
    (stab.pc = "analyzed" /\ Len(stab.args.curves) > 0) =>
        \A i \in 1..Len(stab.args.curves) :
            Len(stab.args.curves[i]) = Len(stab.args.r_axis)

(***************************************************************************)
(* CommandWorker: the thread of run, its child process, and the GUI thread *)
(* calling stop_process                                                    *)
(***************************************************************************)
\* the greatest number of lines of output read from the child
MaxLines == 2

\* log_signal.emit(text)
LogLine(text) == <<"log", text>>

\* finished_signal.emit(ok, message)
Finished(ok, message) == <<"finished", ok, message>>

\* (mutant) no signal for a child stopped by the user
report_exit_unless_stopped(signals, rc) ==
    IF rc = 0 THEN Append(signals, Finished(TRUE, "finalizado"))
    ELSE IF rc = -15 THEN signals
    ELSE Append(signals, Finished(FALSE, "codigo de salida"))

\* the signal emitted for the exit code of the child
report_exit(signals, rc) ==
    IF rc = 0 THEN Append(signals, Finished(TRUE, "finalizado"))
    ELSE IF rc = -15 THEN Append(signals, Finished(FALSE, "detenido"))
    ELSE Append(signals, Finished(FALSE, "codigo de salida"))

\* the "except Exception" of run
report_exception(signals) == Append(signals, Finished(FALSE, "critico"))

\* input_file_path: None, a file, a missing file, a file open() cannot read
WorkerInputs == {"none", "ok", "missing", "unreadable"}

\* the exit codes of a child that ends by itself
ExitCodes == {0, 1}

\* SIGTERM, as returncode reports it
Terminated == -15

InitWorker ==
    /\ \E input \in WorkerInputs, launches \in BOOLEAN :
        worker = [run |-> "start", input |-> input, launches |-> launches,
                  process |-> "none", rc |-> 0, lines |-> 0,
                  signals |-> <<>>, gui |-> "idle"]
    /\ sle = Idle /\ om = Idle /\ cn = Idle /\ stab = Idle /\ fit = Idle
    /\ prof = Idle /\ pred = Idle /\ project = Idle

\* run: "if self.input_file_path: file_obj = open(...)"; FileNotFoundError
\* emits and returns, any other exception goes to "except Exception"
OpenInput ==
    /\ worker.run = "start"
    /\ worker' =
          IF worker.input \in {"none", "ok"}
          THEN [worker EXCEPT !.run = "log"]
          ELSE IF worker.input = "missing"
          THEN [worker EXCEPT
                  !.run = "returned",
                  !.signals = Append(worker.signals,
                                     Finished(FALSE, "input no encontrado"))]
          ELSE [worker EXCEPT
                  !.run = "returned",
                  !.signals = report_exception(worker.signals)]
    /\ UNCHANGED <<sle, om, cn, stab, fit, prof, pred, project>>

\* run: log_signal.emit(f"CMD: ...")
LogCommand ==
    /\ worker.run = "log"
    /\ worker' = [worker EXCEPT
                    !.run = "popen",
                    !.signals = Append(worker.signals, LogLine("CMD"))]
    /\ UNCHANGED <<sle, om, cn, stab, fit, prof, pred, project>>

\* run: self.process = subprocess.Popen(...), which may raise
Launch ==
    /\ worker.run = "popen"
    /\ worker' =
          IF worker.launches
          THEN [worker EXCEPT !.run = "read", !.process = "running"]
          ELSE [worker EXCEPT
                  !.run = "returned",
                  !.signals = report_exception(worker.signals)]
    /\ UNCHANGED <<sle, om, cn, stab, fit, prof, pred, project>>

\* run: a line read from the child's output is emitted
ReadLine ==
    /\ worker.run = "read"
    /\ worker.lines < MaxLines
    /\ worker' = [worker EXCEPT
                    !.lines = worker.lines + 1,
                    !.signals = Append(worker.signals, LogLine("line"))]
    /\ UNCHANGED <<sle, om, cn, stab, fit, prof, pred, project>>

\* run: readline raises (output that cannot be decoded)
ReadFails ==
    /\ worker.run = "read"
    /\ worker' = [worker EXCEPT
                    !.run = "returned",
                    !.signals = report_exception(worker.signals)]
    /\ UNCHANGED <<sle, om, cn, stab, fit, prof, pred, project>>

\* run: end of the output of a child that has exited, then
\* self.process.wait() and the signal for its exit code
ReportExit ==
    /\ worker.run = "read"
    /\ worker.process = "exited"
    /\ worker' = [worker EXCEPT
                    !.run = "returned",
                    !.signals = report_exit(worker.signals, worker.rc)]
    /\ UNCHANGED <<sle, om, cn, stab, fit, prof, pred, project>>

\* the child ends by itself
ProcessExits ==
    /\ worker.process = "running"
    /\ \E rc \in ExitCodes :
          worker' = [worker EXCEPT !.process = "exited", !.rc = rc]
    /\ UNCHANGED <<sle, om, cn, stab, fit, prof, pred, project>>

\* stop_process: "if self.process and self.process.poll() is None"
StopCheck ==
    /\ worker.gui = "idle"
    /\ worker' = [worker EXCEPT
                    !.gui = IF worker.process = "running" THEN "terminate"
                            ELSE "returned"]
    /\ UNCHANGED <<sle, om, cn, stab, fit, prof, pred, project>>

\* stop_process: self.process.terminate(), which signals a child that has
\* not exited yet
StopTerminate ==
    /\ worker.gui = "terminate"
    /\ worker' =
          IF worker.process = "running"
          THEN [worker EXCEPT !.gui = "wait", !.process = "exited",
                              !.rc = Terminated]
          ELSE [worker EXCEPT !.gui = "wait"]
    /\ UNCHANGED <<sle, om, cn, stab, fit, prof, pred, project>>

\* stop_process: self.process.wait() returns once the child has exited
StopWait ==
    /\ worker.gui = "wait"
    /\ worker.process = "exited"
    /\ worker' = [worker EXCEPT !.gui = "returned"]
    /\ UNCHANGED <<sle, om, cn, stab, fit, prof, pred, project>>

NextWorker ==
    \/ OpenInput \/ LogCommand \/ Launch \/ ReadLine \/ ReadFails
    \/ ReportExit \/ ProcessExits \/ StopCheck \/ StopTerminate \/ StopWait

SpecWorker == InitWorker /\ [][NextWorker]_vars

\* the positions of finished_signal among the signals emitted
FinishedAt ==
    {i \in 1..Len(worker.signals) : worker.signals[i][1] = "finished"}

\* C27: every execution of run emits finished_signal exactly once, as its
\* last signal, on every path: nothing is emitted after it, it is emitted
\* only as run returns, and a run that has returned has emitted it.
C27_FinishedOnceAndLast ==
    /\ FinishedAt \subseteq {Len(worker.signals)}
    /\ (FinishedAt # {}) <=> (worker.run = "returned")

\* run has returned after reading output of a child that stop_process
\* terminated
C27_Witness ==
    /\ worker.run = "returned"
    /\ worker.gui = "returned"
    /\ worker.rc = Terminated
    /\ worker.lines > 0
    /\ worker.signals[Len(worker.signals)] = Finished(FALSE, "detenido")

\* C28: in every interleaving of stop_process with run, once stop_process
\* has returned the child process is not running, and is not started
\* afterwards.
C28_StoppedForGood ==
    (worker.gui = "returned") => (worker.process # "running")

(***************************************************************************)
(* ProjectManager: the systems of the project                              *)
(***************************************************************************)
\* project_data["systems"] is modelled by its keys, in the order of their
\* insertion; os.makedirs is taken to succeed under the storage directory
\* that create_project has created
NoSystem == "None"

DefaultSystem == "Default_System"

\* the keys of the systems
Keys(p) == {p.systems[i] : i \in 1..Len(p.systems)}

\* the manager after a call, with what the call returned
Outcome(systems, active, ok) ==
    [systems |-> systems, active |-> active, ok |-> ok]

\* create_system(sys_name)
create_system(p, sys_name) ==
    IF sys_name \in Keys(p) THEN Outcome(p.systems, p.active, FALSE)
    ELSE Outcome(Append(p.systems, sys_name), sys_name, TRUE)

\* clone_system(new_name, source_name); copied: the files of the source
\* could be listed and copied
clone_system(p, new_name, source_name, copied) ==
    IF new_name \in Keys(p) THEN Outcome(p.systems, p.active, FALSE)
    ELSE IF source_name \notin Keys(p) THEN Outcome(p.systems, p.active, FALSE)
    ELSE IF ~copied THEN Outcome(Append(p.systems, new_name), p.active, FALSE)
    ELSE Outcome(Append(p.systems, new_name), new_name, TRUE)

\* (mutant) the active system is kept when it is the one deleted
after_delete_keeping(rest, active, sys_name) == Outcome(rest, active, TRUE)

\* delete_system after "del self.project_data['systems'][sys_name]"
after_delete(rest, active, sys_name) ==
    IF active # sys_name THEN Outcome(rest, active, TRUE)
    ELSE IF Len(rest) > 0 THEN Outcome(rest, rest[1], TRUE)
    ELSE [create_system(Outcome(<<>>, NoSystem, TRUE), DefaultSystem)
             EXCEPT !.ok = TRUE]

\* delete_system(sys_name); removed: shutil.rmtree did not raise
delete_system(p, sys_name, removed) ==
    IF sys_name \notin Keys(p) THEN Outcome(p.systems, p.active, FALSE)
    ELSE IF ~removed THEN Outcome(p.systems, p.active, FALSE)
    ELSE after_delete(SelectSeq(p.systems, LAMBDA k : k # sys_name),
                      p.active, sys_name)

\* the names typed for a system
SystemNames == {DefaultSystem, "A", "B", "C"}

\* a call made on the manager
Made(op, name, ok) == [op |-> op, name |-> name, ok |-> ok]

InitProject ==
    /\ project = [pc |-> "new", systems |-> <<>>, active |-> NoSystem,
                  before |-> <<>>, last |-> Made("none", NoSystem, FALSE)]
    /\ sle = Idle /\ om = Idle /\ cn = Idle /\ stab = Idle /\ fit = Idle
    /\ prof = Idle /\ pred = Idle /\ worker = Idle

\* the manager after the call whose outcome is o
Called(op, name, o) ==
    [pc |-> "open", systems |-> o.systems, active |-> o.active,
     before |-> project.systems, last |-> Made(op, name, o.ok)]

\* create_project(name, root_path), succeeding
CreateProject ==
    /\ project.pc = "new"
    /\ project' = Called("create_project", DefaultSystem,
                         create_system(Outcome(<<>>, NoSystem, TRUE),
                                       DefaultSystem))
    /\ UNCHANGED <<sle, om, cn, stab, fit, prof, pred, worker>>

CreateSystem ==
    /\ project.pc = "open"
    /\ \E sys_name \in SystemNames :
          project' = Called("create_system", sys_name,
                            create_system(project, sys_name))
    /\ UNCHANGED <<sle, om, cn, stab, fit, prof, pred, worker>>

CloneSystem ==
    /\ project.pc = "open"
    /\ \E new_name \in SystemNames, source_name \in SystemNames,
          copied \in BOOLEAN :
          project' = Called("clone_system", new_name,
                            clone_system(project, new_name, source_name,
                                         copied))
    /\ UNCHANGED <<sle, om, cn, stab, fit, prof, pred, worker>>

DeleteSystem ==
    /\ project.pc = "open"
    /\ \E sys_name \in SystemNames, removed \in BOOLEAN :
          project' = Called("delete_system", sys_name,
                            delete_system(project, sys_name, removed))
    /\ UNCHANGED <<sle, om, cn, stab, fit, prof, pred, worker>>

NextProject == CreateProject \/ CreateSystem \/ CloneSystem \/ DeleteSystem

SpecProject == InitProject /\ [][NextProject]_vars

\* the last call deleted the only system there was
DeletedLast ==
    /\ project.last.op = "delete_system" /\ project.last.ok
    /\ project.before = <<project.last.name>>

MaxRecent == 5

\* os.path.normpath on a path given by its components: empty components
\* (doubled or trailing separators) and "." are dropped
normpath(path) ==
    IF SelectSeq(path, LAMBDA c : c \notin {"", "."}) = <<>> THEN <<".">>
    ELSE SelectSeq(path, LAMBDA c : c \notin {"", "."})

\* (mutant) nothing is removed
RemoveNothing(l, e) == l

\* l.remove(e), for e in l: the list without the first occurrence of e
RemoveFirst(l, e) ==
    LET at == CHOOSE i \in 1..Len(l) :
                  l[i] = e /\ \A j \in 1..(i - 1) : l[j] # e
    IN  SubSeq(l, 1, at - 1) \o SubSeq(l, at + 1, Len(l))

\* the list once the normalized path is inserted at its head
recent_with(inserted) ==
    IF Len(inserted) > MaxRecent THEN SubSeq(inserted, 1, MaxRecent)
    ELSE inserted

\* add_to_recent(path): recent_projects after the call
add_to_recent(recent_projects, path) ==
    recent_with(<<normpath(path)>>
                \o (IF \E i \in 1..Len(recent_projects) :
                           recent_projects[i] = normpath(path)
                    THEN RemoveFirst(recent_projects, normpath(path))
                    ELSE recent_projects))

\* the paths added: of one and two components, some not normalized
RecentPaths ==
    {<<"a">>, <<"a", ".">>, <<"a", "", "b">>, <<"a", "b">>, <<"b">>,
     <<"c">>, <<"d">>, <<"e">>, <<".">>}

\* recent_projects as load_global_config finds it: no file, or a list
\* written by hand with an entry that is not normalized
RecentLoaded == {<<>>, <<<<"a", ".">>, <<"b">>>>}

InitRecent ==
    /\ \E loaded \in RecentLoaded :
        project = [pc |-> "recent", recent_projects |-> loaded,
                   before |-> loaded, added |-> <<>>]
    /\ sle = Idle /\ om = Idle /\ cn = Idle /\ stab = Idle /\ fit = Idle
    /\ prof = Idle /\ pred = Idle /\ worker = Idle

AddToRecent ==
    /\ project.pc = "recent"
    /\ \E path \in RecentPaths :
          project' = [project EXCEPT
                        !.recent_projects =
                            add_to_recent(project.recent_projects, path),
                        !.before = project.recent_projects,
                        !.added = path]
    /\ UNCHANGED <<sle, om, cn, stab, fit, prof, pred, worker>>

NextRecent == AddToRecent

SpecRecent == InitRecent /\ [][NextRecent]_vars

\* C30: starting from a list of at most 5 distinct entries, after any
\* sequence of add_to_recent calls the list has at most 5 entries, holds
\* no path twice, and has the path added last (as os.path.normpath writes
\* it) at index 0.
C30_RecentBounded ==
    (project.pc = "recent") =>
        /\ Len(project.recent_projects) <= MaxRecent
        /\ \A i, j \in 1..Len(project.recent_projects) :
               (project.recent_projects[i] = project.recent_projects[j])
                   => (i = j)
        /\ (project.added # <<>>) =>
               project.recent_projects[1] = normpath(project.added)

\* a path that was in a full list, not at its head, was added again
C30_Witness ==
    /\ project.pc = "recent"
    /\ project.added # <<>>
    /\ Len(project.before) = MaxRecent
    /\ \E i \in 2..MaxRecent : project.before[i] = normpath(project.added)
    /\ Len(project.recent_projects) = MaxRecent
    /\ project.recent_projects[1] = normpath(project.added)

====
